---- MODULE Spec2Model ----
(***************************************************************************)
(* Client-side session cache of external_ui (src/src/lib/auth.ts) and the  *)
(* PersonaCard subscriber of its "auth:changed" notification               *)
(* (src/src/components/PersonaCard.tsx).                                   *)
(*                                                                         *)
(* Text is a sequence of one-character strings, so that concatenation      *)
(* ("Bearer " + token), JSON.stringify and JSON.parse are computed on the  *)
(* characters.  A JavaScript "string | null" is Null or Val(text); a       *)
(* rejected promise / thrown error is Throw(message).  A JavaScript object *)
(* with string members is a function from member name (text) to text.      *)
(* JavaScript runs every handler to completion, so one action is one       *)
(* synchronous run: a call up to its first await, or a continuation after  *)
(* an await up to its return.                                              *)
(***************************************************************************)
EXTENDS Integers, Sequences, FiniteSets, TLC

VARIABLES
    localStorage,   \* the origin's storage: key -> Null or Val(text)
    pending,        \* fetches in flight, per authApi function
    listeners,      \* the PersonaCards whose handler is registered for "auth:changed"
    userId,         \* PersonaCard instance -> its userId state
    received,       \* PersonaCard instance -> numbers of the events its handler ran for
    subscribedAt,   \* PersonaCard instance -> events dispatched before it subscribed
    dispatchCount,  \* number of "auth:changed" events dispatched so far
    lastEvent,      \* the last event dispatched: its detail and the storage its handlers saw
    sessionOpen,    \* history: a sign-in/up succeeded and no signOut was called since
    returned,       \* the last call that returned or threw, with its result
    dialog,         \* the state of the credentials dialog of PersonaCard DialogCard
    cardFetches,    \* the fetches of that card in flight: lists, fills, saves
    chat,           \* the state of ChatInterface
    settings,       \* the state of the PersonaSettings page
    listFetches     \* the list requests PersonaSettings issued, in order of issue

\* The state of the screens other than the session service and its listeners.
screenVars == <<dialog, cardFetches, chat, settings, listFetches>>

vars == <<localStorage, pending, listeners, userId, received,
          subscribedAt, dispatchCount, lastEvent, sessionOpen, returned,
          dialog, cardFetches, chat, settings, listFetches>>

(* ------------------------------ bounds --------------------------------- *)

MaxInFlight == 2
NumCards == 2
MaxDispatch == 2
MaxCardFetches == 2
MaxListFetches == 3
MaxDetailFetches == 2
\* Save requests of the settings page in flight at once.
MaxAddSaves == 1
\* Chat requests in flight at once, and calls of handleSend from one render.
MaxChatInFlight == 2
MaxTriggers == 2

Cards == 1..NumCards

(* ------------------------------ values --------------------------------- *)

Null == [tag |-> "null"]
Val(x) == [tag |-> "value", v |-> x]
Throw(m) == [tag |-> "throw", message |-> m]

EmptyText == <<>>
QUOTE == "\""
BACKSLASH == "\\"
NEWLINE == "\n"

K_id == <<"i", "d">>
K_email == <<"e", "m", "a", "i", "l">>
K_name == <<"n", "a", "m", "e">>
K_detail == <<"d", "e", "t", "a", "i", "l">>

\* AuthUser values a backend response may carry: name omitted, and a name
\* holding the two characters JSON escapes.
UserAnn == (K_id :> <<"7">>) @@ (K_email :> <<"a", "@", "x">>)
UserBob == (K_id :> <<"8">>) @@ (K_email :> <<"b", "@", "x">>)
              @@ (K_name :> <<"B", QUOTE, BACKSLASH>>)
Users == {UserAnn, UserBob}

\* Token values a backend response may carry (the type is string).
Tokens == {EmptyText, <<"t", "k">>}

AuthResponses == [token : Tokens, user : Users]

MSG_SIGNUP_FAILED == <<"S", "i", "g", "n", " ", "u", "p", " ", "f", "a", "i", "l", "e", "d">>
MSG_SIGNIN_FAILED == <<"S", "i", "g", "n", " ", "i", "n", " ", "f", "a", "i", "l", "e", "d">>
MSG_INVALID == <<"I", "n", "v", "a", "l", "i", "d">>
MSG_FETCH == <<"F", "a", "i", "l", "e", "d", " ", "t", "o", " ", "f", "e", "t", "c", "h">>
MSG_SYNTAX == <<"S", "y", "n", "t", "a", "x", "E", "r", "r", "o", "r">>

\* What fetch() settles to: a 2xx response whose body is an AuthResponse, a
\* 2xx response whose body is not JSON, a non-2xx response (body: JSON with a
\* detail, JSON with an empty detail, JSON without detail, not JSON), or a
\* rejection.
FetchOutcomes ==
    [kind : {"ok"}, body : AuthResponses]
    \cup {[kind |-> "ok_not_json"]}
    \cup [kind : {"status"}, body : {Val((K_detail :> MSG_INVALID)),
                                     Val((K_detail :> EmptyText)),
                                     Val((K_id :> EmptyText)),
                                     Throw(MSG_SYNTAX)}]
    \cup {[kind |-> "reject"]}

(* ------------------------- JSON (auth.ts:115,121) ----------------------- *)

At(t, i) == IF i \in 1..Len(t) THEN t[i] ELSE "EOF"

RECURSIVE Escape_noBackslash(_)
\* An Escape that leaves '\' as it is.
Escape_noBackslash(t) ==
    IF t = <<>> THEN <<>>
    ELSE (IF Head(t) = QUOTE THEN <<BACKSLASH, Head(t)>>
          ELSE IF Head(t) = NEWLINE THEN <<BACKSLASH, "n">>
          ELSE <<Head(t)>>)
         \o Escape_noBackslash(Tail(t))

RECURSIVE Escape(_)
\* The characters of a JSON string literal's inside: '"' and '\' take a
\* backslash, a line feed is written \n.
Escape(t) ==
    IF t = <<>> THEN <<>>
    ELSE (IF Head(t) \in {QUOTE, BACKSLASH} THEN <<BACKSLASH, Head(t)>>
          ELSE IF Head(t) = NEWLINE THEN <<BACKSLASH, "n">>
          ELSE <<Head(t)>>)
         \o Escape(Tail(t))

Quote(t) == <<QUOTE>> \o Escape(t) \o <<QUOTE>>

\* Member order of the objects of this program: id, email, name, then detail.
MemberOrder == <<K_id, K_email, K_name, K_detail>>

RECURSIVE StringifyMembers(_, _, _)
StringifyMembers(obj, n, first) ==
    IF n > Len(MemberOrder) THEN <<>>
    ELSE IF MemberOrder[n] \in DOMAIN obj
         THEN (IF first THEN <<>> ELSE <<",">>)
              \o Quote(MemberOrder[n]) \o <<":">> \o Quote(obj[MemberOrder[n]])
              \o StringifyMembers(obj, n + 1, FALSE)
         ELSE StringifyMembers(obj, n + 1, first)

\* JSON.stringify of an object with string members.
JSON_stringify(obj) == <<"{">> \o StringifyMembers(obj, 1, TRUE) \o <<"}">>

RECURSIVE ScanString(_, _, _)
\* Reads a string literal whose opening quote is before position i.  A raw
\* line feed inside the literal is a syntax error.
ScanString(t, i, acc) ==
    IF i > Len(t) THEN [ok |-> FALSE]
    ELSE IF t[i] = QUOTE THEN [ok |-> TRUE, v |-> acc, next |-> i + 1]
    ELSE IF t[i] = NEWLINE THEN [ok |-> FALSE]
    ELSE IF t[i] = BACKSLASH
         THEN IF At(t, i + 1) \in {QUOTE, BACKSLASH}
              THEN ScanString(t, i + 2, Append(acc, t[i + 1]))
              ELSE IF At(t, i + 1) = "n"
              THEN ScanString(t, i + 2, Append(acc, NEWLINE))
              ELSE [ok |-> FALSE]
    ELSE ScanString(t, i + 1, Append(acc, t[i]))

RECURSIVE ParseMembers(_, _, _)
\* Reads '"key":"value"' members from position i up to the closing brace,
\* which must end the text.
ParseMembers(t, i, obj) ==
    IF At(t, i) # QUOTE THEN Throw(MSG_SYNTAX)
    ELSE LET k == ScanString(t, i + 1, <<>>) IN
         IF ~k.ok \/ At(t, k.next) # ":" \/ At(t, k.next + 1) # QUOTE
         THEN Throw(MSG_SYNTAX)
         ELSE LET val == ScanString(t, k.next + 2, <<>>) IN
              IF ~val.ok THEN Throw(MSG_SYNTAX)
              ELSE LET obj2 == [x \in (DOMAIN obj) \cup {k.v} |->
                                    IF x = k.v THEN val.v ELSE obj[x]] IN
                   IF At(t, val.next) = "," THEN ParseMembers(t, val.next + 1, obj2)
                   ELSE IF At(t, val.next) = "}" /\ val.next = Len(t) THEN Val(obj2)
                   ELSE Throw(MSG_SYNTAX)

\* JSON.parse of a text: the object, or a thrown SyntaxError.
JSON_parse(t) ==
    IF At(t, 1) # "{" THEN Throw(MSG_SYNTAX)
    ELSE IF At(t, 2) = "}" /\ Len(t) = 2 THEN Val(<<>>)
    ELSE ParseMembers(t, 2, <<>>)

\* JSON_parse, with its results on the texts that JSON_stringify produces for
\* the users of the model computed once.
ParsedUsers == [t \in {JSON_stringify(u) : u \in Users} |-> JSON_parse(t)]
JSON_parse_once(t) == IF t \in DOMAIN ParsedUsers THEN ParsedUsers[t] ELSE JSON_parse(t)

(* ------------------ validation schemas (auth.ts:4-13) ------------------ *)

NAME_MIN == 2
NAME_MAX == 100
PASSWORD_MIN == 6
PASSWORD_MAX == 256

LETTERS ==
    {"a", "b", "c", "d", "e", "f", "g", "h", "i", "j", "k", "l", "m", "n", "o", "p", "q",
     "r", "s", "t", "u", "v", "w", "x", "y", "z", "A", "B", "C", "D", "E", "F", "G", "H",
     "I", "J", "K", "L", "M", "N", "O", "P", "Q", "R", "S", "T", "U", "V", "W", "X", "Y", "Z"}
DIGITS == {"0", "1", "2", "3", "4", "5", "6", "7", "8", "9"}
WHITESPACE == {" ", "\t", NEWLINE, "\r"}

\* String.prototype.trim: the text without its leading and trailing white
\* space.
Trim(t) ==
    IF \A i \in 1..Len(t) : t[i] \in WHITESPACE THEN <<>>
    ELSE LET first == CHOOSE i \in 1..Len(t) :
                          t[i] \notin WHITESPACE /\ \A j \in 1..(i - 1) : t[j] \in WHITESPACE
             last == CHOOSE i \in 1..Len(t) :
                         t[i] \notin WHITESPACE /\ \A j \in (i + 1)..Len(t) : t[j] \in WHITESPACE
         IN SubSeq(t, first, last)

\* z.string().email(): one "@"; before it a non-empty local part of letters,
\* digits and _ ' + - . that neither starts nor ends with "." (nor ends with
\* "'"); after it one or more labels, each starting with a letter or digit
\* and followed by ".", then a final label of two or more letters; no ".."
\* anywhere.
IsEmail(t) ==
    LET ats == {i \in 1..Len(t) : t[i] = "@"} IN
    /\ Cardinality(ats) = 1
    /\ LET p == CHOOSE i \in ats : TRUE
           dom == SubSeq(t, p + 1, Len(t))
           dots == {i \in 1..Len(dom) : dom[i] = "."}
       IN /\ p > 1
          /\ \A i \in 1..(p - 1) : t[i] \in LETTERS \cup DIGITS \cup {"_", "'", "+", "-", "."}
          /\ t[1] # "."
          /\ t[p - 1] \in LETTERS \cup DIGITS \cup {"_", "+", "-"}
          /\ \A i \in 1..(Len(t) - 1) : ~(t[i] = "." /\ t[i + 1] = ".")
          /\ dots # {}
          /\ LET lastDot == CHOOSE i \in dots : \A j \in dots : j <= i IN
             /\ Len(dom) - lastDot >= 2
             /\ \A i \in (lastDot + 1)..Len(dom) : dom[i] \in LETTERS
             /\ \A i \in 1..lastDot :
                   /\ dom[i] \in LETTERS \cup DIGITS \cup {"-", "."}
                   /\ (i = 1 \/ dom[i - 1] = ".") => dom[i] \in LETTERS \cup DIGITS

\* The issues of the three field schemas, as <<field, message>> entries.
NameIssues(name) ==
    (IF Len(Trim(name)) < NAME_MIN
     THEN {<<"name", "Name must be at least 2 characters">>} ELSE {})
    \cup (IF Len(Trim(name)) > NAME_MAX
          THEN {<<"name", "Name must be less than 100 characters">>} ELSE {})

EmailIssues(email) ==
    IF IsEmail(Trim(email)) THEN {} ELSE {<<"email", "Invalid email address">>}

PasswordIssues(min, max, password) ==
    (IF Len(password) < min
     THEN {<<"password", "Password must be at least 6 characters">>} ELSE {})
    \cup (IF Len(password) > max THEN {<<"password", "Password is too long">>} ELSE {})

\* signUpSchema.safeParse(data): the issues it reports; none when data is
\* valid.
signUpSchema(data) ==
    NameIssues(data.name) \cup EmailIssues(data.email)
    \cup PasswordIssues(PASSWORD_MIN, PASSWORD_MAX, data.password)

\* signInSchema with its password minimum one too low.
signInSchema_min5(data) ==
    EmailIssues(data.email) \cup PasswordIssues(PASSWORD_MIN - 1, PASSWORD_MAX, data.password)

signInSchema(data) ==
    EmailIssues(data.email) \cup PasswordIssues(PASSWORD_MIN, PASSWORD_MAX, data.password)

(* --------------------- localStorage (Web Storage) ---------------------- *)

AUTH_TOKEN == "auth_token"
AUTH_USER == "auth_user"
USER_ID == "user_id"
CRED_ID == "cred_id"

\* CRED_CONFIGS of PersonaCard: the fields of each persona's credential form
\* (every field is required).
CRED_CONFIGS ==
    [jenkins |-> <<[key |-> "jenkins_url", type |-> "text"],
                   [key |-> "username", type |-> "text"],
                   [key |-> "api_token", type |-> "password"],
                   [key |-> "jenkins_proxy_url", type |-> "text"]>>,
     jira |-> <<[key |-> "jira_url", type |-> "text"],
                [key |-> "jira_email", type |-> "text"],
                [key |-> "jira_api_token", type |-> "password"]>>]
CardPersonas == DOMAIN CRED_CONFIGS
\* getConfigForPersona(name) !== null: the persona has a credential form.
HasConfig(p) == p \in DOMAIN CRED_CONFIGS
Fields(p) == {CRED_CONFIGS[p][i] : i \in DOMAIN CRED_CONFIGS[p]}
FieldKeys(p) == {f.key : f \in Fields(p)}

\* The keys of the session store.  A storage is a function from the keys
\* that were ever written, and these two, to Null or Val(text); a key outside
\* its domain has no item.
StorageKeys == {AUTH_TOKEN, AUTH_USER}

getItem(ls, k) == IF k \in DOMAIN ls THEN ls[k] ELSE Null
setItem(ls, k, text) == [x \in (DOMAIN ls) \cup {k} |-> IF x = k THEN Val(text) ELSE ls[x]]
removeItem(ls, k) == [ls EXCEPT ![k] = Null]

\* JavaScript truthiness of a "string | null": null and "" are falsy.
Truthy(x) == x.tag = "value" /\ x.v # EmptyText

(* -------------------- tokenStorage (auth.ts:89-110) -------------------- *)

tokenStorage_get(ls) == getItem(ls, AUTH_TOKEN)
tokenStorage_set(ls, token) == setItem(ls, AUTH_TOKEN, token)
tokenStorage_remove(ls) == removeItem(ls, AUTH_TOKEN)

BEARER == <<"B", "e", "a", "r", "e", "r", " ">>
AUTHORIZATION == "Authorization"

\* getAuthHeader with the separating space of "Bearer " left out.
tokenStorage_getAuthHeader_noSpace(ls) ==
    LET token == tokenStorage_get(ls) IN
    IF Truthy(token) THEN {<<AUTHORIZATION, <<"B", "e", "a", "r", "e", "r">> \o token.v>>}
    ELSE {}

\* A header mapping is a set of <<name, value>> entries.
tokenStorage_getAuthHeader(ls) ==
    LET token == tokenStorage_get(ls) IN
    IF Truthy(token) THEN {<<AUTHORIZATION, BEARER \o token.v>>} ELSE {}

(* -------------------- userStorage (auth.ts:112-129) -------------------- *)

\* userStorage.get with JSON.parse in a try/catch that answers null.
userStorage_get_catch(ls) ==
    LET user == getItem(ls, AUTH_USER) IN
    IF Truthy(user)
    THEN (IF JSON_parse_once(user.v).tag = "throw" THEN Null ELSE JSON_parse_once(user.v))
    ELSE Null

\* Null, Val(user) or Throw (JSON.parse threw).
userStorage_get(ls) ==
    LET user == getItem(ls, AUTH_USER) IN
    IF Truthy(user) THEN JSON_parse_once(user.v) ELSE Null

userStorage_set(ls, user) == setItem(ls, AUTH_USER, JSON_stringify(user))
userStorage_remove(ls) == removeItem(ls, AUTH_USER)

(* ----------------- queries of authService (auth.ts:168-188) ------------ *)

\* isAuthenticated written as `tokenStorage.get() !== null`.
isAuthenticated_notNull(ls) == tokenStorage_get(ls).tag = "value"

isAuthenticated(ls) == Truthy(tokenStorage_get(ls))

getCurrentUser(ls) == userStorage_get(ls)

\* userStorage.get()?.id ?? null
getCurrentUserId(ls) ==
    LET user == userStorage_get(ls) IN
    IF user.tag = "throw" THEN user
    ELSE IF user.tag = "null" THEN Null
    ELSE IF K_id \in DOMAIN user.v THEN Val(user.v[K_id]) ELSE Null

(* ----------------------- authApi (auth.ts:46-84) ----------------------- *)

\* An ErrorMessage that never looks at the body: always the fallback.
ErrorMessage_ignoresDetail(body, fallback) == fallback

\* error.detail || fallback, where error is the parsed body, or
\* {detail: fallback} when response.json() rejected.
ErrorMessage(body, fallback) ==
    LET error == IF body.tag = "value" THEN body.v ELSE (K_detail :> fallback) IN
    IF K_detail \in DOMAIN error /\ error[K_detail] # EmptyText
    THEN error[K_detail] ELSE fallback

\* authApi.signIn without its `if (!response.ok)` branch: the body of a
\* non-2xx answer is returned as if it were the AuthResponse.
authApi_signIn_noOkCheck(outcome) ==
    CASE outcome.kind = "reject" -> Throw(MSG_FETCH)
      [] outcome.kind = "status" ->
            IF outcome.body.tag = "throw" THEN Throw(MSG_SYNTAX)
            ELSE Val([token |-> <<"u", "n", "d", "e", "f", "i", "n", "e", "d">>,
                      user |-> outcome.body.v])
      [] outcome.kind = "ok_not_json" -> Throw(MSG_SYNTAX)
      [] outcome.kind = "ok" -> Val(outcome.body)

\* authApi.signUp without its `if (!response.ok)` branch.
authApi_signUp_noOkCheck(outcome) ==
    CASE outcome.kind = "reject" -> Throw(MSG_FETCH)
      [] outcome.kind = "status" ->
            IF outcome.body.tag = "throw" THEN Throw(MSG_SYNTAX)
            ELSE Val([token |-> <<"u", "n", "d", "e", "f", "i", "n", "e", "d">>,
                      user |-> outcome.body.v])
      [] outcome.kind = "ok_not_json" -> Throw(MSG_SYNTAX)
      [] outcome.kind = "ok" -> Val(outcome.body)

\* The promise of authApi.signUp once fetch settled to `outcome`:
\* Val(AuthResponse) or Throw(message).
authApi_signUp(outcome) ==
    CASE outcome.kind = "reject" -> Throw(MSG_FETCH)
      [] outcome.kind = "status" -> Throw(ErrorMessage(outcome.body, MSG_SIGNUP_FAILED))
      [] outcome.kind = "ok_not_json" -> Throw(MSG_SYNTAX)
      [] outcome.kind = "ok" -> Val(outcome.body)

authApi_signIn(outcome) ==
    CASE outcome.kind = "reject" -> Throw(MSG_FETCH)
      [] outcome.kind = "status" -> Throw(ErrorMessage(outcome.body, MSG_SIGNIN_FAILED))
      [] outcome.kind = "ok_not_json" -> Throw(MSG_SYNTAX)
      [] outcome.kind = "ok" -> Val(outcome.body)

(* ------------- emitAuthChanged and its listener (PersonaCard) ---------- *)

Mounted(c) == c \in listeners

\* onAuthChanged without its setUserId: the card keeps the id it had.
onAuthChanged_noSet(ls, current) == current

\* PersonaCard's onAuthChanged: the userId it sets, reading storage `ls`.
\* A throwing getCurrentUserId ends the handler before setUserId.
onAuthChanged(ls, current) ==
    LET id == getCurrentUserId(ls) IN
    IF id.tag = "throw" THEN current
    ELSE IF id.tag = "value" THEN id.v ELSE EmptyText

\* An emitAuthChanged that queues the event for a later task: no handler has
\* run when it returns.
emitAuthChanged_deferred(ls, n, cards) == cards

\* window.dispatchEvent of event number n while storage is `ls`: every
\* registered listener runs before dispatchEvent returns.  The handlers only
\* read storage, so the order among them does not show and the listeners are
\* kept as a set.  Yields the cards' new state.
emitAuthChanged(ls, n, cards) ==
    [userId |-> [c \in Cards |-> IF Mounted(c) THEN onAuthChanged(ls, cards.userId[c])
                                  ELSE cards.userId[c]],
     received |-> [c \in Cards |-> IF Mounted(c) THEN Append(cards.received[c], n)
                                    ELSE cards.received[c]]]

(* ------------------- authService (auth.ts:142-166) --------------------- *)

\* authService.signUp without its userStorage.set.
authService_signUp_noUser(ls, response) ==
    LET ls1 == tokenStorage_set(ls, response.token)
    IN [store |-> ls1, events |-> <<[detail |-> Val(response.user), seen |-> ls1]>>]

\* authService.signIn without its tokenStorage.set.
authService_signIn_noToken(ls, response) ==
    LET ls2 == userStorage_set(ls, response.user)
    IN [store |-> ls2, events |-> <<[detail |-> Val(response.user), seen |-> ls2]>>]

\* authService.signIn with emitAuthChanged moved before userStorage.set.
authService_signIn_emitEarly(ls, response) ==
    LET ls1 == tokenStorage_set(ls, response.token)
        ls2 == userStorage_set(ls1, response.user)
    IN [store |-> ls2, events |-> <<[detail |-> Val(response.user), seen |-> ls1]>>]

\* authService.signOut that returns early, without a notification, when no
\* token is stored.
authService_signOut_quietWhenOut(ls) ==
    LET ls1 == tokenStorage_remove(ls)
        ls2 == userStorage_remove(ls1)
    IN [store |-> ls2,
        events |-> IF tokenStorage_get(ls).tag = "null" THEN <<>>
                   ELSE <<[detail |-> Null, seen |-> ls2]>>]

\* authService.signOut without its tokenStorage.remove.
authService_signOut_keepsToken(ls) ==
    LET ls2 == userStorage_remove(ls)
    IN [store |-> ls2, events |-> <<[detail |-> Null, seen |-> ls2]>>]

\* authService.signUp that stores the token only when none is stored yet.
authService_signUp_noToken(ls, response) ==
    LET ls1 == IF tokenStorage_get(ls).tag = "null"
               THEN tokenStorage_set(ls, response.token) ELSE ls
        ls2 == userStorage_set(ls1, response.user)
    IN [store |-> ls2, events |-> <<[detail |-> Val(response.user), seen |-> ls2]>>]

\* authService.signIn that keeps the session already stored: it writes only
\* when no token is stored, and notifies in either case.
authService_signIn_keepsSession(ls, response) ==
    LET ls1 == tokenStorage_set(ls, response.token)
        ls2 == userStorage_set(ls1, response.user)
        ls3 == IF tokenStorage_get(ls).tag = "null" THEN ls2 ELSE ls
    IN [store |-> ls3, events |-> <<[detail |-> Val(response.user), seen |-> ls3]>>]

\* The continuation of authService.signUp after authApi.signUp resolved:
\* the storage it leaves, and the events it dispatches in order, each with
\* the storage its handlers read.
authService_signUp(ls, response) ==
    LET ls1 == tokenStorage_set(ls, response.token)
        ls2 == userStorage_set(ls1, response.user)
    IN [store |-> ls2, events |-> <<[detail |-> Val(response.user), seen |-> ls2]>>]

authService_signIn(ls, response) ==
    LET ls1 == tokenStorage_set(ls, response.token)
        ls2 == userStorage_set(ls1, response.user)
    IN [store |-> ls2, events |-> <<[detail |-> Val(response.user), seen |-> ls2]>>]

authService_signOut(ls) ==
    LET ls1 == tokenStorage_remove(ls)
        ls2 == userStorage_remove(ls1)
    IN [store |-> ls2, events |-> <<[detail |-> Null, seen |-> ls2]>>]

(* ------------------------------ state ---------------------------------- *)

EmptyStorage == [k \in StorageKeys |-> Null]
InFlight == pending.signUp + pending.signIn

(* ------------ PersonaCard credentials dialog: pure parts ---------------- *)

MAIN == <<"m", "a", "i", "n">>
PROD == <<"p", "r", "o", "d">>
NEW_ITEM == <<"_", "_", "n", "e", "w", "_", "_">>
REDACTED == <<"*", "*", "*", "R", "E", "D", "A", "C", "T", "E", "D", "*", "*", "*">>
MASK_CHARS == {"*", "BULLET", "BLACK CIRCLE"}

UPPER == <<"A", "B", "C", "D", "E", "F", "G", "H", "I", "J", "K", "L", "M",
           "N", "O", "P", "Q", "R", "S", "T", "U", "V", "W", "X", "Y", "Z">>
LOWER == <<"a", "b", "c", "d", "e", "f", "g", "h", "i", "j", "k", "l", "m",
           "n", "o", "p", "q", "r", "s", "t", "u", "v", "w", "x", "y", "z">>
LowerText(t) ==
    [i \in 1..Len(t) |->
        IF \E n \in DOMAIN UPPER : UPPER[n] = t[i]
        THEN LOWER[CHOOSE n \in DOMAIN UPPER : UPPER[n] = t[i]] ELSE t[i]]

\* A mutation of looksMasked: only the literal "***REDACTED***" is a mask.
looksMasked_redactedOnly(val) == Trim(val) = REDACTED

\* looksMasked(val) for a string: after trimming, "***REDACTED***", three or
\* more mask characters, "<hidden>" or "MASKED" in any letter case.
looksMasked(val) ==
    LET v == Trim(val) IN
    /\ v # <<>>
    /\ \/ v = REDACTED
       \/ Len(v) >= 3 /\ \A i \in 1..Len(v) : v[i] \in MASK_CHARS
       \/ LowerText(v) = <<"<", "h", "i", "d", "d", "e", "n", ">">>
       \/ LowerText(v) = <<"m", "a", "s", "k", "e", "d">>

\* getSeedValues(keys): the stored value of each key, "" when there is none.
getSeedValues(ls, keys) ==
    [k \in keys |-> IF getItem(ls, k).tag = "null" THEN EmptyText ELSE getItem(ls, k).v]

\* A saveSeedValues that stores the API token field under "auth_token".
saveSeedValues_tokenKey(ls, values) ==
    LET renamed(k) == IF k \in {"api_token", "jira_api_token"} THEN AUTH_TOKEN ELSE k IN
    [x \in (DOMAIN ls) \cup {renamed(k) : k \in DOMAIN values} |->
        IF \E k \in DOMAIN values : renamed(k) = x
        THEN Val(values[CHOOSE k \in DOMAIN values : renamed(k) = x])
        ELSE ls[x]]

\* saveSeedValues(values): localStorage.setItem(k, v) for every entry.
saveSeedValues(ls, values) ==
    [x \in (DOMAIN ls) \cup (DOMAIN values) |->
        IF x \in DOMAIN values THEN Val(values[x]) ELSE ls[x]]

\* applyFetchedFields(fields): for every field of the persona's form that
\* `fields` has, the form takes the fetched value, a masked password being
\* emptied; the other entries of the form stay.
applyFetchedFields(form, fields, p) ==
    LET incoming == {f \in Fields(p) : f.key \in DOMAIN fields} IN
    [k \in (DOMAIN form) \cup {f.key : f \in incoming} |->
        IF \E f \in incoming : f.key = k
        THEN LET f == CHOOSE g \in incoming : g.key = k IN
             IF f.type = "password" /\ looksMasked(fields[k]) THEN EmptyText ELSE fields[k]
        ELSE form[k]]

\* The text setItem stores for a "string | null" value.
String(x) == IF x.tag = "null" THEN <<"n", "u", "l", "l">> ELSE x.v

\* The useState initial values of a PersonaCard of persona p.
CardState(ls, p) ==
    [open |-> FALSE, persona |-> p, form |-> <<>>,
     credId |-> IF Truthy(getItem(ls, CRED_ID)) THEN getItem(ls, CRED_ID).v ELSE MAIN,
     isNewCredId |-> FALSE, credIds |-> <<>>,
     credIdsLoading |-> FALSE, credIdsError |-> FALSE, loadingFields |-> FALSE]

\* The forms of the Add Credential dialog as useState creates them, and as a
\* successful handleAddCredential resets them.
EmptyJenkinsForm ==
    [cred_id |-> EmptyText, jenkins_url |-> EmptyText, username |-> EmptyText,
     api_token |-> EmptyText]
EmptyJiraForm ==
    [cred_id |-> EmptyText, jira_url |-> EmptyText, jira_email |-> EmptyText,
     jira_api_token |-> EmptyText]

\* The useState initial values of the n-th PersonaSettings instance.
SettingsClosed(n) ==
    [mounted |-> FALSE, instance |-> n, userId |-> Null, selectedPersona |-> "jenkins",
     refreshKey |-> 0, credentials |-> <<>>, from |-> 0, isLoading |-> FALSE,
     expandedCredId |-> Null, credFields |-> Null, secretsMasked |-> TRUE,
     detailLoading |-> FALSE, details |-> <<>>,
     isDialogOpen |-> FALSE, isSaving |-> FALSE,
     jenkinsForm |-> EmptyJenkinsForm, jiraForm |-> EmptyJiraForm, saves |-> <<>>]

\* The page has just loaded with `ls` in the origin's storage: nothing is in
\* flight, nothing is mounted, no event was dispatched.
LoadedWith(ls, persona) ==
    /\ localStorage = ls
    /\ pending = [signUp |-> 0, signIn |-> 0]
    /\ listeners = {}
    /\ userId = [c \in Cards |-> EmptyText]
    /\ received = [c \in Cards |-> <<>>]
    /\ subscribedAt = [c \in Cards |-> 0]
    /\ dispatchCount = 0
    /\ lastEvent = [detail |-> Null, seen |-> EmptyStorage]
    /\ sessionOpen = (getItem(ls, AUTH_TOKEN) # Null)
    /\ returned = [op |-> "none"]
    /\ dialog = CardState(ls, persona)
    /\ cardFetches = [lists |-> <<>>, fills |-> 0, saves |-> <<>>]
    /\ chat = [sending |-> FALSE, requests |-> <<>>]
    /\ settings = SettingsClosed(0)
    /\ listFetches = <<>>

Loaded(ls) == LoadedWith(ls, "jenkins")

\* The first load: the storage is empty.
Init == Loaded(EmptyStorage)

RECURSIVE Deliver(_, _, _)
\* The cards after the events from the i-th on were dispatched.
Deliver(events, i, cards) ==
    IF i > Len(events) THEN cards
    ELSE Deliver(events, i + 1,
                 emitAuthChanged(events[i].seen, dispatchCount + i, cards))

\* The effects of one synchronous run that wrote storage and dispatched events.
Apply(run) ==
    LET cards == Deliver(run.events, 1, [userId |-> userId, received |-> received]) IN
    /\ dispatchCount + Len(run.events) <= MaxDispatch
    /\ localStorage' = run.store
    /\ dispatchCount' = dispatchCount + Len(run.events)
    /\ lastEvent' = IF run.events = <<>> THEN lastEvent ELSE run.events[Len(run.events)]
    /\ userId' = cards.userId
    /\ received' = cards.received

(* ------------------------------ actions -------------------------------- *)

\* authService.signUp(data) up to `await authApi.signUp(data)`: one fetch is
\* issued.
SignUpCall ==
    /\ InFlight < MaxInFlight
    /\ pending' = [pending EXCEPT !.signUp = @ + 1]
    /\ UNCHANGED <<localStorage, listeners, userId, received, subscribedAt,
                   dispatchCount, lastEvent, sessionOpen, returned>>
    /\ UNCHANGED screenVars

\* authService.signUp from the settling of its fetch to its return or throw.
SignUpSettle(outcome) ==
    /\ pending.signUp > 0
    /\ pending' = [pending EXCEPT !.signUp = @ - 1]
    /\ LET response == authApi_signUp(outcome) IN
       IF response.tag = "throw"
       THEN /\ returned' = [op |-> "signUp", outcome |-> outcome.kind, result |-> response]
            /\ UNCHANGED <<localStorage, listeners, userId, received, subscribedAt,
                           dispatchCount, lastEvent, sessionOpen>>
       ELSE /\ Apply(authService_signUp(localStorage, response.v))
            /\ sessionOpen' = TRUE
            /\ returned' = [op |-> "signUp", outcome |-> outcome.kind, result |-> response]
            /\ UNCHANGED <<listeners, subscribedAt>>
    /\ UNCHANGED screenVars

SignInCall ==
    /\ InFlight < MaxInFlight
    /\ pending' = [pending EXCEPT !.signIn = @ + 1]
    /\ UNCHANGED <<localStorage, listeners, userId, received, subscribedAt,
                   dispatchCount, lastEvent, sessionOpen, returned>>
    /\ UNCHANGED screenVars

\* A signIn that sends its request again when the attempt failed.
SignInSettle_retry(outcome) ==
    /\ pending.signIn > 0
    /\ LET response == authApi_signIn(outcome) IN
       IF response.tag = "throw"
       THEN /\ pending' = pending
            /\ returned' = [op |-> "signIn", outcome |-> outcome.kind, result |-> response]
            /\ UNCHANGED <<localStorage, listeners, userId, received, subscribedAt,
                           dispatchCount, lastEvent, sessionOpen>>
       ELSE /\ pending' = [pending EXCEPT !.signIn = @ - 1]
            /\ Apply(authService_signIn(localStorage, response.v))
            /\ sessionOpen' = TRUE
            /\ returned' = [op |-> "signIn", outcome |-> outcome.kind, result |-> response,
                            before |-> localStorage]
            /\ UNCHANGED <<listeners, subscribedAt>>
    /\ UNCHANGED screenVars

SignInSettle(outcome) ==
    /\ pending.signIn > 0
    /\ pending' = [pending EXCEPT !.signIn = @ - 1]
    /\ LET response == authApi_signIn(outcome) IN
       IF response.tag = "throw"
       THEN /\ returned' = [op |-> "signIn", outcome |-> outcome.kind, result |-> response]
            /\ UNCHANGED <<localStorage, listeners, userId, received, subscribedAt,
                           dispatchCount, lastEvent, sessionOpen>>
       ELSE /\ Apply(authService_signIn(localStorage, response.v))
            /\ sessionOpen' = TRUE
            /\ returned' = [op |-> "signIn", outcome |-> outcome.kind, result |-> response,
                            before |-> localStorage]
            /\ UNCHANGED <<listeners, subscribedAt>>
    /\ UNCHANGED screenVars

\* authService.signOut(): synchronous, no request.
SignOut ==
    /\ Apply(authService_signOut(localStorage))
    /\ sessionOpen' = FALSE
    /\ returned' = [op |-> "signOut", before |-> localStorage]
    /\ UNCHANGED <<pending, listeners, subscribedAt>>
    /\ UNCHANGED screenVars

\* The read-only calls: the caller gets the value, nothing else changes.
IsAuthenticated ==
    /\ returned' = [op |-> "isAuthenticated", result |-> isAuthenticated(localStorage)]
    /\ UNCHANGED <<localStorage, pending, listeners, userId, received, subscribedAt,
                   dispatchCount, lastEvent, sessionOpen>>
    /\ UNCHANGED screenVars

GetCurrentUser ==
    /\ returned' = [op |-> "getCurrentUser", result |-> getCurrentUser(localStorage)]
    /\ UNCHANGED <<localStorage, pending, listeners, userId, received, subscribedAt,
                   dispatchCount, lastEvent, sessionOpen>>
    /\ UNCHANGED screenVars

GetAuthHeader ==
    /\ returned' = [op |-> "getAuthHeader",
                    result |-> tokenStorage_getAuthHeader(localStorage)]
    /\ UNCHANGED <<localStorage, pending, listeners, userId, received, subscribedAt,
                   dispatchCount, lastEvent, sessionOpen>>
    /\ UNCHANGED screenVars

\* What the forms are submitted with: texts around the limits of the schemas.
Filled(n, ch) == [i \in 1..n |-> ch]
SampleEmails ==
    {<<"a", "@", "x", ".", "i", "o">>, <<" ", "a", "@", "x", ".", "i", "o", " ">>,
     <<"a", "@", "x">>, <<"a", "x", ".", "i", "o">>, <<".", "a", "@", "x", ".", "i", "o">>,
     <<>>}
SamplePasswords ==
    {Filled(5, "p"), Filled(6, "p"), Filled(6, " "), Filled(256, "p"), Filled(257, "p")}
SampleFormNames ==
    {<<"A">>, <<" ", "A", " ">>, <<"A", "l">>, <<" ", "A", "l", " ">>,
     Filled(100, "n"), <<" ">> \o Filled(100, "n") \o <<" ">>, Filled(101, "n")}
ValidSignUp ==
    [name |-> <<"A", "l">>, email |-> <<"a", "@", "x", ".", "i", "o">>,
     password |-> Filled(6, "p")]
\* A valid submission with one field replaced by each sample, and submissions
\* with more than one field in violation.
SignUpInputs ==
    {[ValidSignUp EXCEPT !.name = n] : n \in SampleFormNames}
    \cup {[ValidSignUp EXCEPT !.email = e] : e \in SampleEmails}
    \cup {[ValidSignUp EXCEPT !.password = pw] : pw \in SamplePasswords}
    \cup {[name |-> <<"A">>, email |-> <<"a", "@", "x">>, password |-> pw] :
             pw \in {Filled(5, "p"), Filled(257, "p")}}
SignInInputs == {[email |-> d.email, password |-> d.password] : d \in SignUpInputs}

\* The issues of the sample submissions, computed once.
SignUpIssues == [data \in SignUpInputs |-> signUpSchema(data)]
SignInIssues == [data \in SignInInputs |-> signInSchema(data)]

\* A caller of getCurrentUserId().
GetCurrentUserId ==
    /\ returned' = [op |-> "getCurrentUserId", result |-> getCurrentUserId(localStorage)]
    /\ UNCHANGED <<localStorage, pending, listeners, userId, received, subscribedAt,
                   dispatchCount, lastEvent, sessionOpen>>
    /\ UNCHANGED screenVars

\* The sign-in form is submitted with `data`: the schema's issues are shown
\* next to their fields and nothing is called, or, when there is none,
\* authService.signIn is called and runs up to its await.
SubmitSignIn(data) ==
    LET issues == IF data \in DOMAIN SignInIssues THEN SignInIssues[data]
                  ELSE signInSchema(data) IN
    /\ returned' = [op |-> "submitSignIn", errors |-> issues]
    /\ IF issues # {}
       THEN UNCHANGED pending
       ELSE /\ InFlight < MaxInFlight
            /\ pending' = [pending EXCEPT !.signIn = @ + 1]
    /\ UNCHANGED <<localStorage, listeners, userId, received, subscribedAt,
                   dispatchCount, lastEvent, sessionOpen>>
    /\ UNCHANGED screenVars

\* The sign-up form is submitted with `data`.
SubmitSignUp(data) ==
    LET issues == IF data \in DOMAIN SignUpIssues THEN SignUpIssues[data]
                  ELSE signUpSchema(data) IN
    /\ returned' = [op |-> "submitSignUp", errors |-> issues]
    /\ IF issues # {}
       THEN UNCHANGED pending
       ELSE /\ InFlight < MaxInFlight
            /\ pending' = [pending EXCEPT !.signUp = @ + 1]
    /\ UNCHANGED <<localStorage, listeners, userId, received, subscribedAt,
                   dispatchCount, lastEvent, sessionOpen>>
    /\ UNCHANGED screenVars

\* The userId sync of PersonaCard's dialog effect: a truthy stored id that
\* differs from the card's userId replaces it.
syncUserId(ls, current) ==
    LET id == getCurrentUserId(ls) IN
    IF Truthy(id) /\ id.v # current THEN id.v ELSE current

\* A PersonaCard mounts: useState(getCurrentUserId() ?? ""), then its effects:
\* addEventListener, and the dialog effect's sync of userId.  A render in
\* which getCurrentUserId throws mounts nothing.
Mount(c) ==
    /\ ~Mounted(c)
    /\ LET id == getCurrentUserId(localStorage)
           initial == IF id.tag = "value" THEN id.v ELSE EmptyText
       IN /\ id.tag # "throw"
          /\ userId' = [userId EXCEPT ![c] = syncUserId(localStorage, initial)]
    /\ listeners' = listeners \cup {c}
    /\ received' = [received EXCEPT ![c] = <<>>]
    /\ subscribedAt' = [subscribedAt EXCEPT ![c] = dispatchCount]
    /\ UNCHANGED <<localStorage, pending, dispatchCount, lastEvent, sessionOpen, returned>>
    /\ UNCHANGED screenVars

\* The dialog effect of a mounted card runs again (the dialog opened or
\* closed, or userId changed): its sync of userId.
DialogEffect(c) ==
    /\ Mounted(c)
    /\ getCurrentUserId(localStorage).tag # "throw"
    /\ userId' = [userId EXCEPT ![c] = syncUserId(localStorage, userId[c])]
    /\ UNCHANGED <<localStorage, pending, listeners, received, subscribedAt,
                   dispatchCount, lastEvent, sessionOpen, returned>>
    /\ UNCHANGED screenVars

\* The card unmounts: the effect's cleanup removes its listener.
Unmount(c) ==
    /\ Mounted(c)
    /\ listeners' = listeners \ {c}
    /\ userId' = [userId EXCEPT ![c] = EmptyText]
    /\ received' = [received EXCEPT ![c] = <<>>]
    /\ subscribedAt' = [subscribedAt EXCEPT ![c] = 0]
    /\ UNCHANGED <<localStorage, pending, dispatchCount, lastEvent, sessionOpen, returned>>
    /\ UNCHANGED screenVars

\* The session service's calls.
Session ==
    \/ SignUpCall
    \/ \E outcome \in FetchOutcomes : SignUpSettle(outcome)
    \/ SignInCall
    \/ \E outcome \in FetchOutcomes : SignInSettle(outcome)
    \/ SignOut

\* The session service with callers of its read-only calls.
Next ==
    \/ Session
    \/ IsAuthenticated
    \/ GetCurrentUser
    \/ GetAuthHeader

Spec == Init /\ [][Next]_vars

\* The session service with PersonaCards mounting and unmounting.
NextCards ==
    \/ Session
    \/ \E c \in Cards : Mount(c)
    \/ \E c \in Cards : DialogEffect(c)
    \/ \E c \in Cards : Unmount(c)

SpecCards == Init /\ [][NextCards]_vars

\* The session service called from the sign-in and sign-up forms.
NextForm ==
    \/ \E data \in SignUpInputs : SubmitSignUp(data)
    \/ \E outcome \in FetchOutcomes : SignUpSettle(outcome)
    \/ \E data \in SignInInputs : SubmitSignIn(data)
    \/ \E outcome \in FetchOutcomes : SignInSettle(outcome)
    \/ SignOut

SpecForm == Init /\ [][NextForm]_vars

(* --------- PersonaCard credentials dialog (PersonaCard.tsx) ------------ *)

\* The card whose credentials dialog the model follows.
DialogCard == 1

sessionVars == <<pending, listeners, received, subscribedAt, dispatchCount, lastEvent,
                 sessionOpen>>

\* What the user types into a field of the form.
SampleFieldValues == {<<"v">>}

\* The `fields` of a credential the backend returns: every field of the form
\* with its secret masked, and every field in clear together with a member
\* named like the session's token slot.
SampleFetched(p) ==
    {[k \in FieldKeys(p) |->
         IF \E f \in Fields(p) : f.key = k /\ f.type = "password"
         THEN <<"*", "*", "*">> ELSE <<"v">>],
     [k \in FieldKeys(p) \cup {AUTH_TOKEN} |-> <<"v">>]}

SampleIdLists == {<<>>, <<MAIN, PROD>>}

Includes(ids, id) == \E i \in DOMAIN ids : ids[i] = id

\* Removes the i-th element of a sequence.
Without(q, i) == SubSeq(q, 1, i - 1) \o SubSeq(q, i + 1, Len(q))

\* The requests of the card that are in flight.
CardInFlight == Len(cardFetches.lists) + cardFetches.fills + Len(cardFetches.saves)

\* fetchAndFillCred(cid) up to its await: whether it sends its request.
FillStarts(cid) ==
    HasConfig(dialog.persona) /\ userId[DialogCard] # EmptyText /\ cid # EmptyText

\* The dialog opens on a card whose userId is that of the stored user (a card
\* that is behind is first brought up to date by DialogEffect): the dialog
\* effect seeds the form from storage and, when the card has a userId,
\* fetches the list of credential ids; the second effect fetches the fields
\* of the selected credential.
OpenDialog ==
    /\ Mounted(DialogCard)
    /\ ~dialog.open
    /\ getCurrentUserId(localStorage).tag # "throw"
    /\ syncUserId(localStorage, userId[DialogCard]) = userId[DialogCard]
    /\ LET listing == HasConfig(dialog.persona) /\ userId[DialogCard] # EmptyText
           filling == FillStarts(dialog.credId) /\ ~dialog.isNewCredId
       IN /\ CardInFlight + (IF listing THEN 1 ELSE 0) + (IF filling THEN 1 ELSE 0)
                 <= MaxCardFetches
          /\ dialog' = [dialog EXCEPT
                 !.open = TRUE,
                 !.form = IF HasConfig(dialog.persona)
                          THEN getSeedValues(localStorage, FieldKeys(dialog.persona))
                          ELSE @,
                 !.credIdsLoading = IF listing THEN TRUE ELSE @,
                 !.credIdsError = IF listing THEN FALSE ELSE @,
                 !.loadingFields = IF filling THEN TRUE ELSE @]
          /\ cardFetches' = [cardFetches EXCEPT
                 !.lists = IF listing THEN Append(@, [credId |-> dialog.credId]) ELSE @,
                 !.fills = IF filling THEN @ + 1 ELSE @]
    /\ UNCHANGED <<localStorage, userId, sessionVars, returned, chat, settings, listFetches>>

\* Cancel, or the dialog is dismissed; the dialog effect runs for the change
\* of `open` and syncs userId.
CloseDialog ==
    /\ dialog.open
    /\ dialog' = [dialog EXCEPT !.open = FALSE]
    /\ userId' = [userId EXCEPT ![DialogCard] = syncUserId(localStorage, @)]
    /\ UNCHANGED <<localStorage, sessionVars, returned, cardFetches, chat,
                   settings, listFetches>>

\* The user edits the input of field `key`.
onChange(key, value) ==
    /\ dialog.open
    /\ HasConfig(dialog.persona)
    /\ key \in FieldKeys(dialog.persona)
    /\ dialog' = [dialog EXCEPT
           !.form = [k \in (DOMAIN @) \cup {key} |-> IF k = key THEN value ELSE @[k]]]
    /\ UNCHANGED <<localStorage, userId, sessionVars, returned, cardFetches, chat,
                   settings, listFetches>>

\* The user picks `val` in the credential selector: "new credential" empties
\* the form; a listed id becomes the credential id, is stored under "cred_id"
\* and has its fields fetched.
SelectCredential(val) ==
    /\ dialog.open
    /\ ~(dialog.credIdsLoading \/ dialog.credIdsError)
    /\ val = NEW_ITEM \/ Includes(dialog.credIds, val)
    /\ IF val = NEW_ITEM
       THEN /\ dialog' = [dialog EXCEPT !.isNewCredId = TRUE, !.form = <<>>]
            /\ UNCHANGED <<localStorage, cardFetches>>
       ELSE /\ FillStarts(val) => CardInFlight < MaxCardFetches
            /\ dialog' = [dialog EXCEPT
                   !.isNewCredId = FALSE, !.credId = val,
                   !.loadingFields = IF FillStarts(val) THEN TRUE ELSE @]
            /\ localStorage' = setItem(localStorage, CRED_ID, val)
            /\ cardFetches' = [cardFetches EXCEPT
                   !.fills = IF FillStarts(val) THEN @ + 1 ELSE @]
    /\ UNCHANGED <<userId, sessionVars, returned, chat, settings, listFetches>>

\* The user types the id of a new credential.
TypeNewCredId(text) ==
    /\ dialog.open
    /\ dialog.isNewCredId
    /\ dialog' = [dialog EXCEPT !.credId = Trim(text)]
    /\ UNCHANGED <<localStorage, userId, sessionVars, returned, cardFetches, chat,
                   settings, listFetches>>

\* The fetch of the credential ids settles: the ids of a 2xx JSON answer, or
\* a failure.
ListIdsSettle(i, outcome) ==
    /\ i \in DOMAIN cardFetches.lists
    /\ cardFetches' = [cardFetches EXCEPT !.lists = Without(@, i)]
    /\ IF outcome.kind = "ok"
       THEN dialog' = [dialog EXCEPT
                !.credIds = outcome.ids,
                !.isNewCredId =
                    IF Includes(outcome.ids, cardFetches.lists[i].credId) THEN FALSE
                    ELSE /\ cardFetches.lists[i].credId # EmptyText
                         /\ cardFetches.lists[i].credId # MAIN,
                !.credIdsLoading = FALSE]
       ELSE dialog' = [dialog EXCEPT !.credIdsError = TRUE, !.credIdsLoading = FALSE]
    /\ UNCHANGED <<localStorage, userId, sessionVars, returned, chat, settings, listFetches>>

\* The fetch of fetchAndFillCred settles: the fields of the credential are
\* applied to the form, or the form is emptied when there is none, or it is
\* left alone on a failure.
FillSettle(outcome) ==
    /\ cardFetches.fills > 0
    /\ cardFetches' = [cardFetches EXCEPT !.fills = @ - 1]
    /\ dialog' = [dialog EXCEPT
           !.form = CASE outcome.kind = "ok" ->
                           applyFetchedFields(@, outcome.fields, dialog.persona)
                      [] outcome.kind = "not_found" -> <<>>
                      [] OTHER -> @,
           !.loadingFields = FALSE]
    /\ UNCHANGED <<localStorage, userId, sessionVars, returned, chat, settings, listFetches>>

\* handleSaveCredentials up to its await: a toast when the user is not signed
\* in, when the persona has no credential form, when a new credential has no
\* id or when a required field (every field is) is empty; otherwise the save
\* request is sent.
SaveCall ==
    /\ dialog.open
    /\ ~dialog.loadingFields
    /\ getCurrentUserId(localStorage).tag # "throw"
    /\ LET liveUserId == getCurrentUserId(localStorage)
           missing == {k \in FieldKeys(dialog.persona) :
                          k \notin DOMAIN dialog.form \/ dialog.form[k] = EmptyText}
           blocked ==
               IF ~isAuthenticated(localStorage) \/ userId[DialogCard] = EmptyText
               THEN "Sign in required"
               ELSE IF ~HasConfig(dialog.persona) THEN "Unsupported Persona"
               ELSE IF dialog.isNewCredId /\ dialog.credId = EmptyText
               THEN "Credential ID required"
               ELSE IF missing # {} THEN "Missing Fields"
               ELSE "none"
       IN IF blocked # "none"
          THEN /\ returned' = [op |-> "handleSaveCredentials", toast |-> blocked]
               /\ UNCHANGED cardFetches
          ELSE /\ CardInFlight < MaxCardFetches
               /\ cardFetches' = [cardFetches EXCEPT !.saves = Append(@,
                      [form |-> dialog.form, user_id |-> liveUserId,
                       cred_id |-> IF dialog.credId = EmptyText THEN MAIN
                                   ELSE dialog.credId])]
               /\ returned' = [op |-> "handleSaveCredentials", toast |-> "none"]
    /\ UNCHANGED <<localStorage, userId, sessionVars, dialog, chat, settings, listFetches>>

\* A mutation of SaveSettle: the convenience keys are stored whatever the
\* answer.
SaveSettle_always(i, outcome) ==
    /\ i \in DOMAIN cardFetches.saves
    /\ cardFetches' = [cardFetches EXCEPT !.saves = Without(@, i)]
    /\ LET payload == cardFetches.saves[i] IN
       /\ localStorage' =
             setItem(setItem(saveSeedValues(localStorage, payload.form),
                             USER_ID, String(payload.user_id)),
                     CRED_ID, payload.cred_id)
       /\ IF outcome \in {"ok", "ok_not_json"}
          THEN /\ dialog' = [dialog EXCEPT !.open = FALSE]
               /\ userId' = [userId EXCEPT ![DialogCard] =
                                 IF dialog.open THEN syncUserId(localStorage, @) ELSE @]
               /\ returned' = [op |-> "handleSaveCredentials", toast |-> "Credentials Saved"]
          ELSE /\ returned' = [op |-> "handleSaveCredentials", toast |-> "Save Failed"]
               /\ UNCHANGED <<dialog, userId>>
    /\ UNCHANGED <<sessionVars, chat, settings, listFetches>>

\* handleSaveCredentials after its fetch settled: on a 2xx answer (JSON or
\* not) the form's values, the user id and the credential id are stored and
\* the dialog closes; otherwise a toast.
SaveSettle(i, outcome) ==
    /\ i \in DOMAIN cardFetches.saves
    /\ cardFetches' = [cardFetches EXCEPT !.saves = Without(@, i)]
    /\ LET payload == cardFetches.saves[i] IN
       IF outcome \in {"ok", "ok_not_json"}
       THEN /\ localStorage' =
                  setItem(setItem(saveSeedValues(localStorage, payload.form),
                                  USER_ID, String(payload.user_id)),
                          CRED_ID, payload.cred_id)
            /\ dialog' = [dialog EXCEPT !.open = FALSE]
            /\ userId' = [userId EXCEPT ![DialogCard] =
                              IF dialog.open THEN syncUserId(localStorage, @) ELSE @]
            /\ returned' = [op |-> "handleSaveCredentials", toast |-> "Credentials Saved"]
       ELSE /\ returned' = [op |-> "handleSaveCredentials", toast |-> "Save Failed"]
            /\ UNCHANGED <<localStorage, dialog, userId>>
    /\ UNCHANGED <<sessionVars, chat, settings, listFetches>>

(* ------------------- ChatInterface (ChatInterface.tsx) ------------------ *)

Copies(n, x) == [i \in 1..n |-> x]

\* The input holds `text` and handleSend is called n times from one render
\* (every call reads the `input` and `sending` of that render), up to the
\* await of each call; then the component renders again.  A call returns at
\* once when the input is blank or `sending` is set; otherwise it empties the
\* input, sets `sending` and sends a request built from the text and from
\* what the storage holds (it is only read).  The input's text is not kept
\* in the state: it is empty again after a send.  The credentials dialog is
\* modal: nothing behind it is clicked while it is open.
ChatSend(text, n) ==
    /\ ~dialog.open
    /\ IF Trim(text) = EmptyText \/ chat.sending
       THEN UNCHANGED chat
       ELSE /\ Len(chat.requests) + n <= MaxChatInFlight
            /\ chat' = [sending |-> TRUE,
                        requests |-> chat.requests \o
                            Copies(n, [content |-> text,
                                       headers |-> tokenStorage_getAuthHeader(localStorage)])]
    /\ UNCHANGED <<localStorage, userId, sessionVars, returned, dialog, cardFetches,
                   settings, listFetches>>

\* handleSend after its fetch settled, whatever the answer: the finally
\* block clears `sending`.
ChatSettle(i) ==
    /\ i \in DOMAIN chat.requests
    /\ chat' = [sending |-> FALSE, requests |-> Without(chat.requests, i)]
    /\ UNCHANGED <<localStorage, userId, sessionVars, returned, dialog, cardFetches,
                   settings, listFetches>>

(* ------------------ PersonaSettings (PersonaSettings.tsx) -------------- *)

SettingsPersonas == {"jenkins", "jira", "grafana"}

\* The cleanup of the list effect: controller.abort() on the request the
\* effect's last run issued, which does nothing to a request that has
\* settled.
AbortLatest(fetches) ==
    IF fetches = <<>> \/ fetches[Len(fetches)].status # "inflight" THEN fetches
    ELSE [fetches EXCEPT ![Len(fetches)].aborted = TRUE]

\* The three setters that close the detail of a row: of onClickRow's
\* collapse, of the list effect and of a successful handleAddCredential.
Collapsed(page) ==
    [page EXCEPT !.expandedCredId = Null, !.credFields = Null, !.secretsMasked = TRUE]

\* The list effect runs for `persona`: fetchCredentials sends its request.
IssueList(fetches, persona) ==
    Append(fetches, [instance |-> settings.instance, persona |-> persona,
                     aborted |-> FALSE, status |-> "inflight"])

\* The page mounts: with no stored user it navigates away; otherwise it takes
\* the user's id, and the list effect sends the first request when the id is
\* not empty.  Every run of the list effect also closes the detail.
SettingsMount ==
    /\ ~settings.mounted
    /\ LET u == getCurrentUser(localStorage) IN
       /\ u.tag # "throw"
       /\ IF u = Null
          THEN /\ returned' = [op |-> "PersonaSettings", navigate |-> "/"]
               /\ UNCHANGED <<settings, listFetches>>
          ELSE LET id == IF K_id \in DOMAIN u.v THEN u.v[K_id] ELSE EmptyText IN
               /\ returned' = [op |-> "PersonaSettings", navigate |-> "none"]
               /\ id # EmptyText => Len(listFetches) < MaxListFetches
               /\ settings' = Collapsed([settings EXCEPT
                      !.mounted = TRUE, !.userId = Val(id),
                      !.isLoading = (id # EmptyText)])
               /\ listFetches' = IF id # EmptyText THEN IssueList(listFetches, "jenkins")
                                 ELSE listFetches
    /\ UNCHANGED <<localStorage, userId, sessionVars, dialog, cardFetches, chat>>

\* The page unmounts: the cleanup aborts the request of the last run.  The
\* detail requests of the instance are forgotten: their setters do nothing
\* once it is unmounted.
SettingsUnmount ==
    /\ settings.mounted
    /\ settings' = SettingsClosed(settings.instance + 1)
    /\ listFetches' = AbortLatest(listFetches)
    /\ UNCHANGED <<localStorage, userId, sessionVars, returned, dialog, cardFetches, chat>>

\* The user picks another persona: the effect's cleanup aborts the request of
\* its last run, and its new run sends a request for the new persona.
SelectPersona(p) ==
    /\ settings.mounted
    /\ p # settings.selectedPersona
    /\ Truthy(settings.userId)
    /\ Len(listFetches) < MaxListFetches
    /\ settings' = Collapsed([settings EXCEPT !.selectedPersona = p, !.isLoading = TRUE])
    /\ listFetches' = IssueList(AbortLatest(listFetches), p)
    /\ UNCHANGED <<localStorage, userId, sessionVars, returned, dialog, cardFetches, chat>>

\* The Refresh button, enabled while isLoading is false:
\* setRefreshKey(k => k + 1), and the effect runs again for the same persona.
Refresh ==
    /\ settings.mounted
    /\ ~settings.isLoading
    /\ Truthy(settings.userId)
    /\ Len(listFetches) < MaxListFetches
    /\ settings' = Collapsed([settings EXCEPT !.refreshKey = @ + 1, !.isLoading = TRUE])
    /\ listFetches' = IssueList(AbortLatest(listFetches), settings.selectedPersona)
    /\ UNCHANGED <<localStorage, userId, sessionVars, returned, dialog, cardFetches, chat>>

\* fetchCredentials after its request settled.  An aborted request rejects
\* with an AbortError: no toast.  Otherwise the ids of a JSON answer are set
\* (none when cred_ids is not an array; the status is not looked at), or a
\* rejection or a body that is not JSON raises the toast.  In every case the
\* finally block clears isLoading.  The setters of an instance that is no
\* longer mounted do nothing.
ListSettle(i, outcome) ==
    /\ i \in DOMAIN listFetches
    /\ listFetches[i].status = "inflight"
    /\ LET request == listFetches[i]
           live == settings.mounted /\ settings.instance = request.instance
           status == IF request.aborted THEN "aborted"
                     ELSE IF outcome.kind = "ok" THEN "applied"
                     ELSE "toast"
       IN /\ listFetches' = [listFetches EXCEPT ![i].status = status]
          /\ settings' =
               IF ~live THEN settings
               ELSE IF status = "applied"
               THEN [settings EXCEPT !.credentials = outcome.ids, !.from = i,
                                     !.isLoading = FALSE]
               ELSE [settings EXCEPT !.isLoading = FALSE]
    /\ UNCHANGED <<localStorage, userId, sessionVars, returned, dialog, cardFetches, chat>>

\* loadCredDetail(credId, reveal) up to its await, on page state `page`:
\* nothing without a userId; otherwise detailLoading is set and the request
\* is sent for the persona selected at that render.
loadCredDetail(page, credId, reveal) ==
    IF ~Truthy(page.userId) THEN page
    ELSE [page EXCEPT
             !.detailLoading = TRUE,
             !.details = Append(@, [credId |-> credId, persona |-> page.selectedPersona,
                                    reveal |-> reveal])]

\* An onClickRow that loads the detail of the row it expands with reveal=true.
onClickRow_revealed(credId) ==
    /\ settings.mounted
    /\ ~settings.isLoading
    /\ Includes(settings.credentials, credId)
    /\ IF settings.expandedCredId = Val(credId)
       THEN settings' = Collapsed(settings)
       ELSE /\ Len(settings.details) < MaxDetailFetches
            /\ settings' = loadCredDetail([settings EXCEPT !.expandedCredId = Val(credId),
                                                           !.credFields = Null,
                                                           !.secretsMasked = TRUE],
                                          credId, TRUE)
    /\ UNCHANGED <<localStorage, userId, sessionVars, returned, dialog, cardFetches, chat,
                   listFetches>>

\* onClickRow(credId) on a row of the rendered list: a click on the expanded
\* row collapses it; a click on another row expands it with no fields and
\* secrets masked, and loads its detail with reveal=false.
onClickRow(credId) ==
    /\ settings.mounted
    /\ ~settings.isLoading
    /\ Includes(settings.credentials, credId)
    /\ IF settings.expandedCredId = Val(credId)
       THEN settings' = Collapsed(settings)
       ELSE /\ Len(settings.details) < MaxDetailFetches
            /\ settings' = loadCredDetail([settings EXCEPT !.expandedCredId = Val(credId),
                                                           !.credFields = Null,
                                                           !.secretsMasked = TRUE],
                                          credId, FALSE)
    /\ UNCHANGED <<localStorage, userId, sessionVars, returned, dialog, cardFetches, chat,
                   listFetches>>

\* onToggleReveal: the button of the expanded row, enabled while
\* detailLoading is false; it loads the detail again, revealed when the
\* secrets are masked and masked when they are revealed.
onToggleReveal ==
    /\ settings.mounted
    /\ ~settings.isLoading
    /\ ~settings.detailLoading
    /\ Truthy(settings.expandedCredId)
    /\ Includes(settings.credentials, settings.expandedCredId.v)
    /\ Len(settings.details) < MaxDetailFetches
    /\ settings' = loadCredDetail(settings, settings.expandedCredId.v, settings.secretsMasked)
    /\ UNCHANGED <<localStorage, userId, sessionVars, returned, dialog, cardFetches, chat,
                   listFetches>>

\* The fields of a detail response: the backend answers for the credential,
\* the persona and the reveal parameter of the request's URL.
FieldsOf(request, flag) ==
    [credId |-> request.credId, persona |-> request.persona, reveal |-> request.reveal,
     secrets_masked |-> flag]

\* loadCredDetail after its request settled: a "success" answer with fields
\* sets the fields and secretsMasked = !!secrets_masked; "not_found" clears
\* the fields and raises a toast; anything else raises the error toast.  In
\* every case detailLoading is cleared.
DetailSettle(i, outcome) ==
    /\ settings.mounted
    /\ i \in DOMAIN settings.details
    /\ LET request == settings.details[i]
           rest == [settings EXCEPT !.details = Without(@, i), !.detailLoading = FALSE]
       IN settings' =
               CASE outcome.status = "success" ->
                        [rest EXCEPT !.credFields = Val(FieldsOf(request, outcome.secrets_masked)),
                                     !.secretsMasked = (outcome.secrets_masked = "true")]
                 [] outcome.status = "not_found" -> [rest EXCEPT !.credFields = Null]
                 [] OTHER -> rest
    /\ UNCHANGED <<localStorage, userId, sessionVars, returned, dialog, cardFetches, chat,
                   listFetches>>

\* What a detail fetch settles to: the status of the answer and, on success,
\* its optional secrets_masked flag.
DetailOutcomes ==
    [status : {"success"}, secrets_masked : {"true", "false", "absent"}]
        \cup {[status |-> "not_found"], [status |-> "error"]}

\* The Add Credential dialog is opened (its trigger) or closed (Cancel,
\* Escape): setIsDialogOpen.
setIsDialogOpen(open) ==
    /\ settings.mounted
    /\ settings.isDialogOpen # open
    /\ settings' = [settings EXCEPT !.isDialogOpen = open]
    /\ UNCHANGED <<localStorage, userId, sessionVars, returned, dialog, cardFetches, chat,
                   listFetches>>

\* An input of the dialog's form for the selected persona is edited
\* (grafana has no form).
setForm(key, value) ==
    /\ settings.mounted
    /\ settings.isDialogOpen
    /\ \/ /\ settings.selectedPersona = "jenkins"
          /\ key \in DOMAIN settings.jenkinsForm
          /\ settings.jenkinsForm[key] # value
          /\ settings' = [settings EXCEPT !.jenkinsForm[key] = value]
       \/ /\ settings.selectedPersona = "jira"
          /\ key \in DOMAIN settings.jiraForm
          /\ settings.jiraForm[key] # value
          /\ settings' = [settings EXCEPT !.jiraForm[key] = value]
    /\ UNCHANGED <<localStorage, userId, sessionVars, returned, dialog, cardFetches, chat,
                   listFetches>>

\* A mutation of HasEmptyField: the jira token is not looked at.
HasEmptyField_noToken(page) ==
    IF page.selectedPersona = "jenkins"
    THEN \E k \in {"cred_id", "jenkins_url", "username", "api_token"} :
            page.jenkinsForm[k] = EmptyText
    ELSE \E k \in {"cred_id", "jira_url", "jira_email"} : page.jiraForm[k] = EmptyText

\* The validation of handleAddCredential for jenkins and for jira:
\* !cred_id || !..._url || !username/jira_email || !(jira_)api_token.
HasEmptyField(page) ==
    IF page.selectedPersona = "jenkins"
    THEN \E k \in {"cred_id", "jenkins_url", "username", "api_token"} :
            page.jenkinsForm[k] = EmptyText
    ELSE \E k \in {"cred_id", "jira_url", "jira_email", "jira_api_token"} :
            page.jiraForm[k] = EmptyText

\* handleAddCredential up to its await.  Without a userId it returns at
\* once.  Otherwise isSaving is set; an empty field (jenkins, jira) or any
\* other persona raises a toast, clears isSaving and returns; else the save
\* request is sent with the user's id and the persona's form.  The handler's
\* own checks are modelled in every state of the open dialog; the dialog's
\* button, which is disabled in the same cases and while isSaving, is not
\* relied on.
handleAddCredential ==
    /\ settings.mounted
    /\ settings.isDialogOpen
    /\ IF ~Truthy(settings.userId)
       THEN /\ returned' = [op |-> "handleAddCredential", toast |-> "none"]
            /\ UNCHANGED settings
       ELSE IF settings.selectedPersona \notin {"jenkins", "jira"}
       THEN /\ returned' = [op |-> "handleAddCredential", toast |-> "Unsupported"]
            /\ settings' = [settings EXCEPT !.isSaving = FALSE]
       ELSE IF HasEmptyField(settings)
       THEN /\ returned' = [op |-> "handleAddCredential", toast |-> "Validation Error"]
            /\ settings' = [settings EXCEPT !.isSaving = FALSE]
       ELSE /\ Len(settings.saves) < MaxAddSaves
            /\ returned' = [op |-> "handleAddCredential", toast |-> "none"]
            /\ settings' = [settings EXCEPT
                   !.isSaving = TRUE,
                   !.saves = Append(@, [persona |-> settings.selectedPersona,
                                        user_id |-> settings.userId.v,
                                        form |-> IF settings.selectedPersona = "jenkins"
                                                 THEN settings.jenkinsForm
                                                 ELSE settings.jiraForm])]
    /\ UNCHANGED <<localStorage, userId, sessionVars, dialog, cardFetches, chat, listFetches>>

\* What a save request of the settings page settles to: a JSON answer with
\* status "success" or "noop", a JSON answer with another status, or a
\* rejection or a body that is not JSON.
AddOutcomes == {"success", "noop", "error", "reject"}

\* handleAddCredential after its request settled.  "success" and "noop"
\* raise the toast, close the dialog, reset both forms, close the detail
\* and bump refreshKey, so that the list effect runs again: its cleanup
\* aborts the request of its last run and a new list request is sent.
\* Anything else raises the error toast.  In every case the finally block
\* clears isSaving.
AddSettle(i, outcome) ==
    /\ settings.mounted
    /\ i \in DOMAIN settings.saves
    /\ LET rest == [settings EXCEPT !.saves = Without(@, i), !.isSaving = FALSE] IN
       IF outcome \in {"success", "noop"}
       THEN /\ Len(listFetches) < MaxListFetches
            /\ returned' = [op |-> "handleAddCredential", toast |-> "Success"]
            /\ settings' = Collapsed([rest EXCEPT
                   !.isDialogOpen = FALSE,
                   !.jenkinsForm = EmptyJenkinsForm, !.jiraForm = EmptyJiraForm,
                   !.refreshKey = @ + 1, !.isLoading = TRUE])
            /\ listFetches' = IssueList(AbortLatest(listFetches), settings.selectedPersona)
       ELSE /\ returned' = [op |-> "handleAddCredential", toast |-> "Error"]
            /\ settings' = rest
            /\ UNCHANGED listFetches
    /\ UNCHANGED <<localStorage, userId, sessionVars, dialog, cardFetches, chat>>

\* What a list or fill fetch settles to.
ListOutcomes == [kind : {"ok"}, ids : SampleIdLists] \cup {[kind |-> "fail"]}
FillOutcomes(p) ==
    [kind : {"ok"}, fields : SampleFetched(p)] \cup {[kind |-> "not_found"], [kind |-> "fail"]}
SaveOutcomes == {"ok", "ok_not_json", "status", "reject"}

\* The fields the user types into: the secrets, which a fetched credential
\* leaves empty when it comes masked.
TypedKeys(p) == {f.key : f \in {g \in Fields(p) : g.type = "password"}}

\* The steps of the view layer around the credentials dialog and the chat.
ViewStep ==
    \/ OpenDialog
    \/ CloseDialog
    \/ \E key \in TypedKeys(dialog.persona) : \E value \in SampleFieldValues :
          onChange(key, value)
    \/ \E val \in {NEW_ITEM, MAIN, PROD} : SelectCredential(val)
    \/ \E text \in {<<" ", "p", "r", "o", "d">>} : TypeNewCredId(text)
    \/ \E i \in DOMAIN cardFetches.lists : \E outcome \in ListOutcomes :
          ListIdsSettle(i, outcome)
    \/ \E outcome \in FillOutcomes(dialog.persona) : FillSettle(outcome)
    \/ SaveCall
    \/ \E i \in DOMAIN cardFetches.saves : \E outcome \in SaveOutcomes : SaveSettle(i, outcome)
    \/ ChatSend(<<"v">>, 1)
    \/ \E i \in DOMAIN chat.requests : ChatSettle(i)

\* The storages a page may load with: empty, or with the session of a
\* sign-in.
SessionStorages ==
    {EmptyStorage} \cup {authService_signIn(EmptyStorage, r).store : r \in AuthResponses}

\* A page loads with no session or with the session of a sign-in, the
\* PersonaCard of a persona mounts, and its credentials dialog and the chat
\* are used.
ViewStorages ==
    {EmptyStorage,
     authService_signIn(EmptyStorage,
                        [token |-> <<"t", "k">>,
                         user |-> UserAnn]).store}

InitView == \E ls \in ViewStorages : \E p \in CardPersonas : LoadedWith(ls, p)

NextView ==
    \/ Mount(DialogCard)
    \/ ViewStep

SpecView == InitView /\ [][NextView]_vars

\* The settings page is used after a load with or without a session.
InitSettings == \E ls \in SessionStorages : Loaded(ls)

NextSettings ==
    \/ SettingsMount
    \/ SettingsUnmount
    \/ \E p \in SettingsPersonas : SelectPersona(p)
    \/ Refresh
    \/ \E i \in DOMAIN listFetches : \E outcome \in ListOutcomes : ListSettle(i, outcome)

SpecSettings == InitSettings /\ [][NextSettings]_vars

\* The rows of the settings page: the list is loaded, rows are clicked,
\* secrets are revealed and hidden, the persona is switched to jira.
NextRows ==
    \/ SettingsMount
    \/ \E p \in {"jira"} : SelectPersona(p)
    \/ \E i \in DOMAIN listFetches : \E outcome \in ListOutcomes : ListSettle(i, outcome)
    \/ \E credId \in {MAIN, PROD} : onClickRow(credId)
    \/ onToggleReveal
    \/ \E i \in DOMAIN settings.details : \E outcome \in DetailOutcomes :
          DetailSettle(i, outcome)

InitRows == \E ls \in ViewStorages : Loaded(ls)

SpecRows == InitRows /\ [][NextRows]_vars

\* Fetched values that look masked: the literal, runs of three or more mask
\* characters, the two words in either letter case, a mask within spaces.
MaskedSamples ==
    {REDACTED,
     <<"*", "*", "*">>,
     <<"BULLET", "BULLET", "BULLET", "BULLET">>,
     <<"*", "BULLET", "BLACK CIRCLE">>,
     <<"<", "h", "i", "d", "d", "e", "n", ">">>,
     <<"<", "H", "i", "d", "d", "e", "n", ">">>,
     <<"M", "A", "S", "K", "E", "D">>,
     <<"m", "a", "s", "k", "e", "d">>,
     <<" ", "*", "*", "*", " ">>}

\* Fetched values that do not: a secret in clear, a run of two mask
\* characters, a mask followed by a letter, the empty string.
ClearSamples ==
    {<<"v">>, <<"*", "*">>, <<"*", "*", "*", "x">>, <<"h", "i", "d", "d", "e", "n">>,
     EmptyText}

\* The `fields` of the answers fetchAndFillCred is tried with: every field
\* of the persona, its password fields only, its other fields only, or
\* none, the password fields carrying `secret` and the others a run of mask
\* characters.
FilledWith(p, keys, secret) ==
    [k \in keys |->
        IF \E f \in Fields(p) : f.key = k /\ f.type = "password" THEN secret
        ELSE <<"*", "*", "*">>]

FillSamples(p) ==
    {[kind |-> "ok", fields |-> FilledWith(p, keys, secret)] :
        keys \in {FieldKeys(p), TypedKeys(p), FieldKeys(p) \ TypedKeys(p), {}},
        secret \in MaskedSamples \cup ClearSamples}

\* The form of a signed-in card is filled from fetched credentials: the
\* dialog opens, the ids are listed, a credential is picked, a secret is
\* typed, and the answers of fetchAndFillCred arrive.
InitFill ==
    \E p \in CardPersonas :
       LoadedWith(authService_signIn(EmptyStorage,
                                     [token |-> <<"t", "k">>, user |-> UserAnn]).store, p)

NextFill ==
    \/ Mount(DialogCard)
    \/ OpenDialog
    \/ \E key \in TypedKeys(dialog.persona) : \E value \in SampleFieldValues :
          onChange(key, value)
    \/ \E i \in DOMAIN cardFetches.lists :
          ListIdsSettle(i, [kind |-> "ok", ids |-> <<MAIN, PROD>>])
    \/ \E val \in {NEW_ITEM, PROD} : SelectCredential(val)
    \/ \E outcome \in FillSamples(dialog.persona) \cup {[kind |-> "not_found"]} :
          FillSettle(outcome)

SpecFill == InitFill /\ [][NextFill]_vars

\* What the chat input holds when handleSend is called: nothing, a space,
\* a message.
SampleInputs == {EmptyText, <<" ">>, <<"h", "i">>}

\* The chat beside the session service: the user signs in and out, and
\* handleSend is called once or several times from a render.
NextChat ==
    \/ Session
    \/ \E text \in SampleInputs : \E n \in 1..MaxTriggers : ChatSend(text, n)
    \/ \E i \in DOMAIN chat.requests : ChatSettle(i)

SpecChat == Init /\ [][NextChat]_vars

\* A user the backend answered with an empty id.
UserNoId == (K_id :> EmptyText) @@ (K_email :> <<"a", "@", "x">>)

\* The storages the save of a card is tried with: no session, the session of
\* a sign-in, of a sign-in whose token is empty, and of a sign-in whose user
\* has an empty id.
SaveStorages ==
    {EmptyStorage} \cup
    {authService_signIn(EmptyStorage, [token |-> t, user |-> UserAnn]).store : t \in Tokens}
    \cup {authService_signIn(EmptyStorage, [token |-> <<"t", "k">>, user |-> UserNoId]).store}

\* The save of a card's credentials dialog: the card of jenkins, of jira or
\* of a persona without a credential form mounts, its dialog is opened, a new
\* credential is named, the fields are filled in and the form is submitted.
InitSave ==
    \E ls \in SaveStorages : \E p \in CardPersonas \cup {"grafana"} : LoadedWith(ls, p)

NextSave ==
    \/ Mount(DialogCard)
    \/ OpenDialog
    \/ \E key \in (IF HasConfig(dialog.persona) THEN FieldKeys(dialog.persona) ELSE {}) :
          \E value \in SampleFieldValues : onChange(key, value)
    \/ SelectCredential(NEW_ITEM)
    \/ \E text \in {EmptyText, <<" ", "p", "r", "o", "d">>} : TypeNewCredId(text)
    \/ \E i \in DOMAIN cardFetches.lists : ListIdsSettle(i, [kind |-> "ok", ids |-> <<>>])
    \/ FillSettle([kind |-> "not_found"])
    \/ SaveCall
    \/ \E i \in DOMAIN cardFetches.saves : \E outcome \in SaveOutcomes : SaveSettle(i, outcome)

SpecSave == InitSave /\ [][NextSave]_vars

\* The Add Credential dialog of the settings page: the page loads with the
\* session of a user with or without an id, a persona is picked, the dialog
\* is opened, its form is edited and submitted.
InitAdd ==
    \E u \in {UserAnn, UserNoId} :
       Loaded(authService_signIn(EmptyStorage, [token |-> <<"t", "k">>, user |-> u]).store)

NextAdd ==
    \/ SettingsMount
    \/ \E p \in SettingsPersonas : ~settings.isDialogOpen /\ SelectPersona(p)
    \/ \E open \in BOOLEAN : setIsDialogOpen(open)
    \/ \E key \in {"cred_id", "jenkins_url", "username", "api_token",
                    "jira_url", "jira_email", "jira_api_token"} :
          \E value \in {EmptyText} \cup SampleFieldValues : setForm(key, value)
    \/ handleAddCredential
    \/ \E i \in DOMAIN settings.saves : \E outcome \in AddOutcomes : AddSettle(i, outcome)

SpecAdd == InitAdd /\ [][NextAdd]_vars

\* Texts another writer of the origin may have left in the auth_user slot:
\* a user's JSON, and texts that are not JSON.
StoredTexts ==
    {JSON_stringify(UserAnn),
     EmptyText,
     <<"{">>,
     <<"u", "n", "d", "e", "f", "i", "n", "e", "d">>,
     SubSeq(JSON_stringify(UserAnn), 1, Len(JSON_stringify(UserAnn)) - 1),
     <<"{", QUOTE, "i", "d", QUOTE, ":", QUOTE, "7", QUOTE, ",", "}">>}

StoredStorages ==
    {[EmptyStorage EXCEPT ![AUTH_TOKEN] = token, ![AUTH_USER] = user] :
        token \in {Null, Val(<<"t", "k">>)},
        user \in {Null} \cup {Val(t) : t \in StoredTexts}}

\* The page loads with whatever the storage holds, and the session service
\* and its read-only calls are used.
InitStored == \E ls \in StoredStorages : Loaded(ls)

NextStored ==
    \/ Next
    \/ GetCurrentUserId

SpecStored == InitStored /\ [][NextStored]_vars

(* ------------------------------ claims --------------------------------- *)

TokenPresent(ls) == getItem(ls, AUTH_TOKEN).tag = "value"
UserPresent(ls) == getItem(ls, AUTH_USER).tag = "value"
NonEmptyToken(ls) == TokenPresent(ls) /\ getItem(ls, AUTH_TOKEN).v # EmptyText
SettledOk(op) == returned.op = op /\ returned.outcome = "ok"

\* C1: in every reachable state the auth_user slot is present if and only if
\* the auth_token slot is present.
C1_SlotsTogether == UserPresent(localStorage) <=> TokenPresent(localStorage)

\* A sign-in has just succeeded and both slots are present.
C1_Witness ==
    /\ SettledOk("signIn")
    /\ TokenPresent(localStorage) /\ UserPresent(localStorage)

\* C2: the settling of a signUp or signIn whose fetch did not answer 2xx with
\* an AuthResponse (non-2xx status, rejected request, unreadable body) leaves
\* both slots as they were, and isAuthenticated() answers as before.
C2_FailedAttemptWritesNothing ==
    [][\A outcome \in FetchOutcomes :
          (outcome.kind # "ok" /\ (SignUpSettle(outcome) \/ SignInSettle(outcome)))
          => /\ localStorage' = localStorage
             /\ isAuthenticated(localStorage') = isAuthenticated(localStorage)]_vars

\* A sign-in or sign-up has just failed while a previous session is stored.
C2_Witness ==
    /\ returned.op \in {"signUp", "signIn"}
    /\ returned.outcome \in {"status", "reject"}
    /\ NonEmptyToken(localStorage) /\ UserPresent(localStorage)

\* C3 as stated: right after a successful signUp, isAuthenticated() is true and
\* currentUser() is the user of the response, for every token and user.
C3_Original ==
    SettledOk("signUp")
    => /\ isAuthenticated(localStorage)
       /\ getCurrentUser(localStorage) = Val(returned.result.v.user)

\* C3 as amended: right after a successful signUp, currentUser() is the user of
\* the response, and isAuthenticated() is true exactly when the token of the
\* response is not the empty string.
C3_SignUpThenQueries ==
    SettledOk("signUp")
    => /\ isAuthenticated(localStorage) <=> returned.result.v.token # EmptyText
       /\ getCurrentUser(localStorage) = Val(returned.result.v.user)

\* A sign-up has just succeeded with a non-empty token and the user whose name
\* holds characters that JSON escapes.
C3_Witness ==
    /\ SettledOk("signUp")
    /\ returned.result.v.token # EmptyText
    /\ returned.result.v.user = UserBob
    /\ isAuthenticated(localStorage)

\* C4 as stated: isAuthenticated() answers true if and only if the auth_token
\* slot holds a token, the empty string included.
C4_Original ==
    returned.op = "isAuthenticated"
    => (returned.result <=> TokenPresent(localStorage))

\* C4 as amended: isAuthenticated() answers true if and only if the auth_token
\* slot holds a non-empty token; the call changes neither the storage nor the
\* requests in flight and dispatches nothing.
C4_IsAuthenticated ==
    [][IsAuthenticated
       => /\ returned'.result <=> NonEmptyToken(localStorage)
          /\ localStorage' = localStorage
          /\ pending' = pending
          /\ dispatchCount' = dispatchCount]_vars

\* isAuthenticated() has just answered false while the slot holds the empty
\* token.
C4_Witness ==
    /\ returned.op = "isAuthenticated"
    /\ ~returned.result
    /\ getItem(localStorage, AUTH_TOKEN) = Val(EmptyText)

\* C5 as stated: getAuthHeader() is the empty mapping when no token is stored
\* and {Authorization: "Bearer " + token} whenever one is, the empty string
\* included.
C5_Original ==
    returned.op = "getAuthHeader"
    => returned.result =
         IF TokenPresent(localStorage)
         THEN {<<"Authorization",
                 <<"B", "e", "a", "r", "e", "r", " ">>
                    \o getItem(localStorage, AUTH_TOKEN).v>>}
         ELSE {}

\* C5 as amended: getAuthHeader() is the empty mapping when no token or the
\* empty token is stored, and {Authorization: "Bearer " + token} when a
\* non-empty token is.
C5_AuthHeader ==
    returned.op = "getAuthHeader"
    => returned.result =
         IF NonEmptyToken(localStorage)
         THEN {<<"Authorization",
                 <<"B", "e", "a", "r", "e", "r", " ">>
                    \o getItem(localStorage, AUTH_TOKEN).v>>}
         ELSE {}

\* getAuthHeader() has just answered {Authorization: "Bearer tk"}.
C5_Witness ==
    /\ returned.op = "getAuthHeader"
    /\ returned.result = {<<"Authorization", <<"B", "e", "a", "r", "e", "r", " ", "t", "k">>>>}

\* C6: every signOut() call, from any storage, leaves both slots absent (so a
\* second call in a row leaves the storage as the first did), issues no
\* request, and dispatches exactly one notification, whose user is absent.
C6_SignOutIdempotent ==
    [][SignOut
       => /\ localStorage' = EmptyStorage
          /\ (localStorage = EmptyStorage => localStorage' = localStorage)
          /\ pending' = pending
          /\ dispatchCount' = dispatchCount + 1
          /\ lastEvent'.detail = Null]_vars

\* A second signOut() in a row has just returned: the storage was empty
\* before it, and it dispatched the second notification of the run.
C6_Witness ==
    /\ returned.op = "signOut"
    /\ returned.before = EmptyStorage
    /\ dispatchCount = 2
    /\ lastEvent.detail = Null

\* C7: the auth_token slot is present if and only if a signIn or signUp has
\* succeeded and signOut was not called since the last such success.
C7_TokenIffSessionOpen == TokenPresent(localStorage) <=> sessionOpen

\* signOut() has just ended a session: the token was there before it.
C7_Witness ==
    /\ returned.op = "signOut"
    /\ TokenPresent(returned.before)
    /\ ~sessionOpen

\* C8 as stated: the notification of a successful signIn or signUp carries
\* the new user, and a handler that reads the storage finds that user as
\* currentUser() and true as isAuthenticated(); the storage does not change
\* between the dispatch and the return.
C8_Original ==
    /\ lastEvent.detail # Null
       => /\ getCurrentUser(lastEvent.seen) = lastEvent.detail
          /\ isAuthenticated(lastEvent.seen)
    /\ (SettledOk("signIn") \/ SettledOk("signUp"))
       => /\ lastEvent.detail = Val(returned.result.v.user)
          /\ lastEvent.seen = localStorage

\* C8 as amended: as stated, except that the handler finds isAuthenticated()
\* true exactly when the token just stored is not the empty string.
C8_WritesBeforeDispatch ==
    /\ lastEvent.detail # Null
       => /\ getCurrentUser(lastEvent.seen) = lastEvent.detail
          /\ TokenPresent(lastEvent.seen)
          /\ isAuthenticated(lastEvent.seen) <=> NonEmptyToken(lastEvent.seen)
    /\ (SettledOk("signIn") \/ SettledOk("signUp"))
       => /\ lastEvent.detail = Val(returned.result.v.user)
          /\ getItem(lastEvent.seen, AUTH_TOKEN) = Val(returned.result.v.token)
          /\ lastEvent.seen = localStorage

\* A sign-in has just succeeded with a non-empty token while a card was
\* subscribed: its handler ran for the event and read the new user's id.
C8_Witness ==
    /\ SettledOk("signIn")
    /\ returned.result.v.token # EmptyText
    /\ lastEvent.detail = Val(UserBob)
    /\ \E c \in listeners : received[c] # <<>> /\ userId[c] = UserBob[K_id]

\* C9: whenever a call has returned, every subscribed listener has run its
\* handler for every notification dispatched since it subscribed, once each
\* and in the order of dispatch: nothing is pending or delivered later.
C9_SynchronousInOrder ==
    \A c \in listeners :
        received[c] = [i \in 1..(dispatchCount - subscribedAt[c]) |-> subscribedAt[c] + i]

\* Two cards are subscribed; one saw both notifications in order, the other
\* subscribed in between and saw the second.
C9_Witness ==
    \E c1, c2 \in listeners :
        /\ received[c1] = <<1, 2>>
        /\ received[c2] = <<2>>

\* The id a card should show: the stored user's id, or the empty string.
StoredUserId ==
    LET user == getItem(localStorage, AUTH_USER) IN
    IF user.tag = "null" THEN EmptyText ELSE JSON_parse(user.v).v[K_id]

\* C10: every subscribed PersonaCard's userId is the id of the user in the
\* store, or the empty string when there is none; right after a signOut()
\* there is no current user and every subscribed card shows the empty id.
C10_CardsFollowStore ==
    /\ \A c \in listeners : userId[c] = StoredUserId
    /\ returned.op = "signOut"
       => /\ getCurrentUser(localStorage) = Null
          /\ \A c \in listeners : userId[c] = EmptyText

\* Two cards were subscribed and showed a user's id when signOut() was
\* called; both handlers ran and both cards show the empty id.
C10_Witness ==
    /\ returned.op = "signOut"
    /\ UserPresent(returned.before)
    /\ Cardinality(listeners) >= 2
    /\ \A c \in listeners : received[c] = <<1, 2>> /\ userId[c] = EmptyText

\* The two session slots hold exactly the token and the user of `response`.
SlotsFrom(ls, response) ==
    /\ getItem(ls, AUTH_TOKEN) = Val(response.token)
    /\ getItem(ls, AUTH_USER) = Val(JSON_stringify(response.user))

\* C11: a signIn that succeeds while a session is already stored leaves both
\* slots holding the token and the user of the new response and nothing else,
\* and dispatches one more notification, which carries the new user.
C11_RepeatedSignInOverwrites ==
    [][\A outcome \in FetchOutcomes :
          (outcome.kind = "ok" /\ TokenPresent(localStorage) /\ SignInSettle(outcome))
          => /\ SlotsFrom(localStorage', outcome.body)
             /\ getCurrentUser(localStorage') = Val(outcome.body.user)
             /\ dispatchCount' = dispatchCount + 1
             /\ lastEvent'.detail = Val(outcome.body.user)
             /\ lastEvent'.seen = localStorage']_vars

\* A sign-in has just succeeded over the session of another user with another
\* token: the store holds the new pair and the second notification of the run
\* carried the new user.
C11_Witness ==
    /\ SettledOk("signIn")
    /\ TokenPresent(returned.before) /\ UserPresent(returned.before)
    /\ getItem(returned.before, AUTH_TOKEN) # getItem(localStorage, AUTH_TOKEN)
    /\ getItem(returned.before, AUTH_USER) # getItem(localStorage, AUTH_USER)
    /\ SlotsFrom(localStorage, returned.result.v)
    /\ dispatchCount = 2
    /\ lastEvent.detail = Val(returned.result.v.user)

\* The text a failed call of `op` falls back to.
GenericMessage(op) == IF op = "signUp" THEN MSG_SIGNUP_FAILED ELSE MSG_SIGNIN_FAILED

\* The settling step of `op` for `outcome`.
Settles(op, outcome) ==
    IF op = "signUp" THEN SignUpSettle(outcome) ELSE SignInSettle(outcome)

\* C12 as stated: on a non-2xx answer the call throws the detail of the JSON
\* payload whenever the payload parses (whatever the detail), and the generic
\* message when the body is absent or not JSON.
C12_Original ==
    [][\A op \in {"signUp", "signIn"} : \A outcome \in FetchOutcomes :
          (outcome.kind = "status" /\ Settles(op, outcome))
          => IF outcome.body.tag = "value"
             THEN K_detail \in DOMAIN outcome.body.v
                  => returned'.result = Throw(outcome.body.v[K_detail])
             ELSE returned'.result = Throw(GenericMessage(op))]_vars

\* C12 as amended: on a non-2xx answer the call throws the detail of the JSON
\* payload when the payload parses and its detail is a non-empty string, and
\* the generic message when the body is absent or not JSON, or when the
\* payload has no detail or an empty one.
C12_ErrorMessage ==
    [][\A op \in {"signUp", "signIn"} : \A outcome \in FetchOutcomes :
          (outcome.kind = "status" /\ Settles(op, outcome))
          => returned'.result =
               IF /\ outcome.body.tag = "value"
                  /\ K_detail \in DOMAIN outcome.body.v
                  /\ outcome.body.v[K_detail] # EmptyText
               THEN Throw(outcome.body.v[K_detail])
               ELSE Throw(GenericMessage(op))]_vars

\* A sign-in has just failed on a non-2xx answer with the payload's detail as
\* its message, and nothing was stored.
C12_Witness ==
    /\ returned.op = "signIn"
    /\ returned.outcome = "status"
    /\ returned.result = Throw(<<"I", "n", "v", "a", "l", "i", "d">>)
    /\ localStorage = EmptyStorage

\* C14: a call of signUp or signIn puts exactly one request in flight, and the
\* settling of a request, whatever its outcome, ends it without sending
\* another one: no other step changes the requests in flight.
C14_OneRequestPerCall ==
    [][/\ SignUpCall => pending' = [pending EXCEPT !.signUp = @ + 1]
       /\ SignInCall => pending' = [pending EXCEPT !.signIn = @ + 1]
       /\ \A outcome \in FetchOutcomes :
             /\ SignUpSettle(outcome) => pending' = [pending EXCEPT !.signUp = @ - 1]
             /\ SignInSettle(outcome) => pending' = [pending EXCEPT !.signIn = @ - 1]
       /\ InFlight' \in {InFlight - 1, InFlight, InFlight + 1}
       /\ InFlight' = InFlight + 1 => (SignUpCall \/ SignInCall)]_vars

\* A sign-in whose request was rejected by the transport has just thrown,
\* and no request is in flight.
C14_Witness ==
    /\ returned.op = "signIn"
    /\ returned.outcome = "reject"
    /\ InFlight = 0

\* C15: every step leaves the two slots as they were, or clears both
\* (signOut), or sets both from the one response that resolved in that step;
\* a response that resolves is applied whatever is stored and whatever else is
\* in flight.
C15_PairFromOneResponse ==
    [][/\ \/ UNCHANGED localStorage
          \/ SignOut /\ ~TokenPresent(localStorage') /\ ~UserPresent(localStorage')
          \/ \E op \in {"signUp", "signIn"} : \E outcome \in FetchOutcomes :
                /\ outcome.kind = "ok"
                /\ Settles(op, outcome)
                /\ SlotsFrom(localStorage', outcome.body)
       /\ \A op \in {"signUp", "signIn"} : \A outcome \in FetchOutcomes :
             (outcome.kind = "ok" /\ Settles(op, outcome))
             => SlotsFrom(localStorage', outcome.body)]_vars

\* A sign-in has just resolved while another attempt is still in flight and
\* the pair of an earlier response was stored: the store holds its pair.
C15_Witness ==
    /\ SettledOk("signIn")
    /\ InFlight >= 1
    /\ TokenPresent(returned.before)
    /\ returned.before # localStorage
    /\ SlotsFrom(localStorage, returned.result.v)

\* User records: name omitted or present, with texts that hold the characters
\* JSON escapes and the punctuation of JSON objects.
SampleNames ==
    {EmptyText, <<"A", "n", "n">>, <<"B", QUOTE, BACKSLASH>>, <<BACKSLASH, "n">>,
     <<NEWLINE>>, <<BACKSLASH, QUOTE, BACKSLASH>>, <<QUOTE, ",", QUOTE, ":", "}">>}
UserRecords ==
    LET base == {(K_id :> i) @@ (K_email :> e) :
                    i \in {<<"7">>, <<QUOTE>>}, e \in {<<"a", "@", "x">>, <<BACKSLASH>>}}
    IN base \cup {u @@ (K_name :> n) : u \in base, n \in SampleNames}

\* C18: whatever is stored, setUser(u) followed by getUser() gives a record
\* equal to u, for every user record with its name present or omitted; and
\* after a successful sign-in currentUser() is the user of the response.
C18_UserRoundTrip ==
    /\ \A u \in UserRecords :
          userStorage_get(userStorage_set(localStorage, u)) = Val(u)
    /\ SettledOk("signIn")
       => getCurrentUser(localStorage) = Val(returned.result.v.user)

\* A sign-in has just succeeded with the user whose name holds a quote and a
\* backslash, and currentUser() is that user, name included.
C18_Witness ==
    /\ SettledOk("signIn")
    /\ returned.result.v.user = UserBob
    /\ getCurrentUser(localStorage) = Val(UserBob)
    /\ getCurrentUser(localStorage).v[K_name] = <<"B", QUOTE, BACKSLASH>>

\* C20: the settling of a failed signIn or signUp dispatches nothing (the last
\* event dispatched stays the last); a step dispatches exactly one notification when it is a signOut
\* or the settling of a successful signIn or signUp, and none otherwise.
C20_NotificationsCounted ==
    [][/\ \A op \in {"signUp", "signIn"} : \A outcome \in FetchOutcomes :
             (outcome.kind # "ok" /\ Settles(op, outcome))
             => /\ dispatchCount' = dispatchCount
                /\ lastEvent' = lastEvent
       /\ dispatchCount' \in {dispatchCount, dispatchCount + 1}
       /\ dispatchCount' = dispatchCount + 1
          <=> \/ SignOut
              \/ \E op \in {"signUp", "signIn"} : \E outcome \in FetchOutcomes :
                    outcome.kind = "ok" /\ Settles(op, outcome)]_vars

\* A sign-up has just failed after one success and no signOut: the one
\* notification of the run is the one of that success.
C20_Witness ==
    /\ returned.op = "signUp"
    /\ returned.outcome \in {"status", "reject"}
    /\ dispatchCount = 1
    /\ lastEvent.detail # Null
    /\ sessionOpen

\* The constraints of the two forms, as the specification states them.
ViolatesSignIn(data) ==
    \/ ~IsEmail(Trim(data.email))
    \/ Len(data.password) < 6
    \/ Len(data.password) > 256
ViolatesSignUp(data) ==
    \/ Len(Trim(data.name)) < 2
    \/ Len(Trim(data.name)) > 100
    \/ ViolatesSignIn(data)

ViolatingSignIns == {data \in SignInInputs : ViolatesSignIn(data)}
ViolatingSignUps == {data \in SignUpInputs : ViolatesSignUp(data)}

UserReads == {"getCurrentUser", "getCurrentUserId"}

\* C19 as stated: a read of the user while the auth_user slot holds text that
\* is not valid JSON (the empty text included) throws the parse error.
C19_Original ==
    (/\ returned.op \in UserReads
     /\ UserPresent(localStorage)
     /\ JSON_parse(getItem(localStorage, AUTH_USER).v).tag = "throw")
    => returned.result.tag = "throw"

\* C19 as amended: a read of the user while the auth_user slot holds a
\* non-empty text that is not valid JSON throws the parse error, a read while
\* it holds the empty text answers absence, and neither read changes a slot.
C19_MalformedUserThrows ==
    [][(GetCurrentUser \/ GetCurrentUserId)
       => /\ localStorage' = localStorage
          /\ (/\ UserPresent(localStorage)
              /\ JSON_parse(getItem(localStorage, AUTH_USER).v).tag = "throw")
             => IF getItem(localStorage, AUTH_USER).v = EmptyText
                THEN returned'.result = Null
                ELSE returned'.result = Throw(MSG_SYNTAX)]_vars

\* getCurrentUserId() has just thrown the parse error on a truncated record,
\* which is still in the slot.
C19_Witness ==
    /\ returned.op = "getCurrentUserId"
    /\ returned.result = Throw(MSG_SYNTAX)
    /\ getItem(localStorage, AUTH_USER) = Val(<<"{">>)

(* C16: the auth_token and auth_user slots are written only by the session
   store: every step of the view layer (opening the credentials dialog,
   editing its form, selecting a credential id, loading the credential ids
   or a credential's fields, saving the credentials with their form seeds,
   user_id and cred_id, sending a chat message) leaves both slots, and so
   the stored user record, as they were. *)
C16_ViewLeavesSessionSlots ==
    [][/\ getItem(localStorage', AUTH_TOKEN) = getItem(localStorage, AUTH_TOKEN)
       /\ getItem(localStorage', AUTH_USER) = getItem(localStorage, AUTH_USER)]_vars

\* A save has just succeeded for a signed-in user while a chat message is
\* being sent: the form seeds, user_id and cred_id are stored next to the
\* session.
C16_Witness ==
    /\ returned = [op |-> "handleSaveCredentials", toast |-> "Credentials Saved"]
    /\ chat.sending
    /\ Truthy(getItem(localStorage, AUTH_TOKEN))
    /\ getCurrentUser(localStorage) = Val(UserAnn)
    /\ getItem(localStorage, USER_ID) = Val(UserAnn[K_id])
    /\ getItem(localStorage, CRED_ID) = Val(PROD)
    /\ \A k \in FieldKeys(dialog.persona) : getItem(localStorage, k) = Val(<<"v">>)

\* The credential ids the settings page lists: those of `credentials` once
\* isLoading is false.
DisplayedIds == IF settings.mounted /\ ~settings.isLoading THEN settings.credentials ELSE <<>>

(* C17: in the credential settings screen a list response is never applied
   after a newer list request has been started, the displayed credential ids
   always come from the most recently issued request, and an aborted request
   raises no error toast. *)
C17_Original ==
    /\ \A i \in DOMAIN listFetches :
          listFetches[i].aborted => listFetches[i].status \in {"inflight", "aborted"}
    /\ settings.mounted /\ settings.from # 0 => ~listFetches[settings.from].aborted
    /\ DisplayedIds # <<>> => settings.from = Len(listFetches)

(* C24: in the credential settings screen isLoading is true whenever a
   credential-list request of the page is in flight and not aborted; the
   completion of an aborted request does not clear it while the request that
   replaced it is outstanding. *)
C24_Original ==
    settings.mounted =>
        \A i \in DOMAIN listFetches :
            /\ listFetches[i].instance = settings.instance
            /\ listFetches[i].status = "inflight"
            /\ ~listFetches[i].aborted
            => settings.isLoading

(* C21: in the credential settings screen, whenever no credential row is
   expanded (expandedCredId is null), credFields is null and secretsMasked
   is true, also when a detail request that started before the collapse
   completes after it. *)
C21_Original ==
    settings.mounted /\ settings.expandedCredId = Null
        => settings.credFields = Null /\ settings.secretsMasked

(* C22: the detail fields shown under an expanded row belong to that row:
   they are the response to a detail request made for the current
   expandedCredId and the current selected persona. *)
C22_Original ==
    settings.mounted /\ settings.expandedCredId # Null /\ settings.credFields # Null
        => /\ settings.credFields.v.credId = settings.expandedCredId.v
           /\ settings.credFields.v.persona = settings.selectedPersona

\* The step sends a detail request: the one the next state has at the end
\* of the requests in flight.
SendsDetail == Len(settings'.details) = Len(settings.details) + 1
SentDetail == settings'.details[Len(settings'.details)]

\* The step expands a row.
Expands ==
    /\ settings'.expandedCredId # Null
    /\ settings'.expandedCredId # settings.expandedCredId

\* The text of a boolean as a secrets_masked flag.
FlagOf(b) == IF b THEN "true" ELSE "false"

(* C23, as stated: every expansion of a row issues its detail request with
   reveal=false, a request with reveal=true is issued only by the reveal
   toggle while secretsMasked is true, and after a successful detail
   response secretsMasked equals the response's secrets_masked flag. *)
C23_Original ==
    [][/\ Expands => SendsDetail /\ ~SentDetail.reveal
       /\ SendsDetail /\ SentDetail.reveal =>
             /\ settings.secretsMasked
             /\ settings'.expandedCredId = settings.expandedCredId
             /\ settings.expandedCredId = Val(SentDetail.credId)
       /\ \A i \in DOMAIN settings.details :
             \A outcome \in DetailOutcomes :
                 DetailSettle(i, outcome) /\ outcome.status = "success"
                     => FlagOf(settings'.secretsMasked) = outcome.secrets_masked]_vars

(* C23, amended: every expansion of a row issues its detail request with
   reveal=false, a request with reveal=true is issued only by the reveal
   toggle while secretsMasked is true, and after a successful detail
   response secretsMasked equals the response's secrets_masked flag when the
   response carries one and is false when it carries none. *)
C23_MaskedByDefault ==
    [][/\ Expands => SendsDetail /\ ~SentDetail.reveal
       /\ SendsDetail /\ SentDetail.reveal =>
             /\ settings.secretsMasked
             /\ settings'.expandedCredId = settings.expandedCredId
             /\ settings.expandedCredId = Val(SentDetail.credId)
       /\ \A i \in DOMAIN settings.details :
             \A outcome \in DetailOutcomes :
                 DetailSettle(i, outcome) /\ outcome.status = "success"
                     => IF outcome.secrets_masked = "absent"
                        THEN ~settings'.secretsMasked
                        ELSE FlagOf(settings'.secretsMasked) = outcome.secrets_masked]_vars

\* The reveal toggle of the expanded row was answered with revealed secrets:
\* the fields shown are those of a reveal=true request for that row, and
\* secretsMasked is false as the response's flag says.
C23_Witness ==
    /\ settings.mounted
    /\ settings.expandedCredId = Val(MAIN)
    /\ settings.credFields # Null
    /\ settings.credFields.v.credId = MAIN
    /\ settings.credFields.v.reveal
    /\ settings.credFields.v.secrets_masked = "false"
    /\ ~settings.secretsMasked
    /\ settings.details = <<>>

(* ---------------------- C25: handleAddCredential ----------------------- *)

\* A step sends a save request of the settings page.
AddSends == Len(settings'.saves) = Len(settings.saves) + 1

\* One of the four fields of the selected persona's form is empty.
SelectedFormIncomplete ==
    \/ /\ settings.selectedPersona = "jenkins"
       /\ \/ settings.jenkinsForm.cred_id = EmptyText
          \/ settings.jenkinsForm.jenkins_url = EmptyText
          \/ settings.jenkinsForm.username = EmptyText
          \/ settings.jenkinsForm.api_token = EmptyText
    \/ /\ settings.selectedPersona = "jira"
       /\ \/ settings.jiraForm.cred_id = EmptyText
          \/ settings.jiraForm.jira_url = EmptyText
          \/ settings.jiraForm.jira_email = EmptyText
          \/ settings.jiraForm.jira_api_token = EmptyText

\* C25: no save request is sent when userId is unresolved (null or empty),
\* when one of the four fields of the selected persona's form is empty, or
\* when the persona is grafana; and whenever a run of handleAddCredential
\* that set isSaving completes (by a validation return or after its request
\* settled, whatever the outcome), isSaving is false.
C25_NoSaveAndIsSavingCleared ==
    [][ /\ AddSends =>
             /\ Truthy(settings.userId)
             /\ ~SelectedFormIncomplete
             /\ settings.selectedPersona # "grafana"
        /\ handleAddCredential /\ Truthy(settings.userId) /\ ~AddSends
             => ~settings'.isSaving
        /\ \A i \in DOMAIN settings.saves : \A outcome \in AddOutcomes :
             AddSettle(i, outcome) => ~settings'.isSaving
      ]_vars

\* The handler has returned on the jira form whose only empty field is the
\* token: nothing was sent and isSaving is false.
C25_Witness ==
    /\ returned = [op |-> "handleAddCredential", toast |-> "Validation Error"]
    /\ settings.selectedPersona = "jira"
    /\ settings.jiraForm = [EmptyJiraForm EXCEPT !.cred_id = <<"v">>, !.jira_url = <<"v">>,
                                                 !.jira_email = <<"v">>]
    /\ settings.saves = <<>>
    /\ ~settings.isSaving

(* ------------------ C26: PersonaCard's save and storage ----------------- *)

\* A step sends a save request of the card.
CardSaveSends == Len(cardFetches'.saves) = Len(cardFetches.saves) + 1

\* A field of the persona's form (every field is required) is empty or
\* missing in the form.
RequiredFieldEmpty ==
    /\ HasConfig(dialog.persona)
    /\ \E k \in FieldKeys(dialog.persona) :
          k \notin DOMAIN dialog.form \/ dialog.form[k] = EmptyText

C27_MaskedSecretsEmptied ==
    [][ \A outcome \in FillSamples(dialog.persona) : FillSettle(outcome) =>
          \A f \in Fields(dialog.persona) :
             IF f.key \in DOMAIN outcome.fields
             THEN /\ f.key \in DOMAIN dialog'.form
                  /\ dialog'.form[f.key] =
                        IF f.type = "password" /\ outcome.fields[f.key] \in MaskedSamples
                        THEN EmptyText
                        ELSE outcome.fields[f.key]
                  /\ f.type = "password" => dialog'.form[f.key] \notin MaskedSamples
             ELSE IF f.key \in DOMAIN dialog.form
                  THEN /\ f.key \in DOMAIN dialog'.form
                       /\ dialog'.form[f.key] = dialog.form[f.key]
                  ELSE f.key \notin DOMAIN dialog'.form
      ]_vars

\* The jira form after a fill: the URL and the e-mail took the fetched text,
\* which is a run of mask characters, and the token is empty.
C27_Witness ==
    /\ dialog.persona = "jira"
    /\ dialog.open
    /\ cardFetches.fills = 0
    /\ DOMAIN dialog.form = FieldKeys("jira")
    /\ dialog.form["jira_url"] = <<"*", "*", "*">>
    /\ dialog.form["jira_api_token"] = EmptyText
    /\ dialog.form["jira_email"] = <<"*", "*", "*">>

(* ------------------- C28: one chat request in flight -------------------- *)

\* C28: the chat has at most one request in flight at any time, also when
\* handleSend is called twice before the component renders again.
C28_Original == Len(chat.requests) <= 1

====
